---- MODULE Spec2Model ----
(***************************************************************************)
(* A model of gossh-wasm: the WebSocket stream adapter (transport.go), the *)
(* session manager (ssh.go), the SFTP registry (sftp.go) and the port      *)
(* forwarder (portforward.go).                                             *)
(*                                                                         *)
(* The library is built for GOOS=js: goroutines are scheduled              *)
(* cooperatively, so a step of the model is the stretch of code a          *)
(* goroutine or a browser event handler runs between two points at which   *)
(* it can block (channel operations, blocking I/O, awaiting a promise).    *)
(* A select with several ready cases picks any of them.                    *)
(***************************************************************************)
EXTENDS Integers, Sequences, FiniteSets, TLC

(***************************************************************************)
(* Bounds.  The first two stand for program constants that are far too     *)
(* large to enumerate (4096 messages, 8 MiB); the model keeps their role   *)
(* and shrinks their value.                                                *)
(***************************************************************************)
\* transport.go: wsReadChanSize = 4096, the capacity of readCh
wsReadChanSize == 2
\* transport.go: wsMaxMessageSize = 8 MiB, the largest accepted frame
wsMaxMessageSize == 2
\* number of payload bytes the peer sends in one behaviour
MaxBytes == 4
\* largest buffer handed to Read
MaxBuf == 2

Min(a, b) == IF a < b THEN a ELSE b

\* sizes of the frames the peer may send: everything up to one byte too large
MsgSizes == 0..(wsMaxMessageSize + 1)

VARIABLES
    \* ---- wsConn (transport.go) ----
    err,         \* c.err: "nil" or the sticky error
    closed,      \* c.closed
    ctxDone,     \* c.ctx.Done() is closed
    readyState,  \* c.ws.readyState: 0 CONNECTING, 1 OPEN, 2 CLOSING, 3 CLOSED
    readCh,      \* c.readCh: the queued messages, each a sequence of bytes
    buf,         \* c.buf: leftover bytes of a partially copied message
    released,    \* cleanupOnce has run: the four js.Func are released
    closePending, \* the connection failed: the close event is due
    rpc,         \* the reading task: "idle", "blocked", "wokeData", "wokeDone"
    rarg,        \* the blocked Read call: its buffer size and when it was issued
    rdata,       \* the message handed to the blocked reader
    cpc,         \* the tasks calling Close: "idle", "done"
    \* ---- history of the adapter (not program state) ----
    nextByte,    \* the peer's bytes are numbered 1, 2, 3, ... in sending order
    readOut,     \* all bytes returned by Read so far, in order
    lastRead,    \* what the last completed Read returned
    bigSeen,     \* a frame larger than wsMaxMessageSize has arrived
    bigBytes,    \* the bytes of the oversized frames
    fullSeen,    \* what happened to the last frame that arrived while readCh was full
    closeReturned, \* some call of Close has returned
    \* ---- sshConnect (ssh.go): one connect attempt ----
    cfg,         \* the config object handed to connect
    kpc,         \* where the attempt is
    sock,        \* the WebSocket of the attempt: "none", "connecting", "open", "closed"
    dialCtx,     \* dialCtx: "none", "live", "cancelled"
    jumpClient,  \* jumpClient: "none", "open", "closed"
    netCh,       \* the channel dialled through the jump host: "none", "open", "closed"
    sshClient,   \* sshClient: "none", "open", "closed"
    sshSession,  \* sshSession: "none", "open", "closed"
    hk,          \* per verified host ("jump", "final"): how its key was decided
    result,      \* the promise of connect: "pending", "resolved", "rejected"
    stored,      \* the new session is in sessionStore
    \* ---- sessions and the registries (ssh.go, sftp.go, portforward.go) ----
    sessionStore, \* the ids in sessionStore
    sftpStore,   \* the entries of sftpStore: [id, sessionID]
    forwardStore, \* the entries of forwardStore: [id, sessionID]
    sstate,      \* per session: "new" (connect has not stored it yet) or "live"
    sctx,        \* per session: sess.ctx is cancelled
    sclient,     \* per session: sess.sshClient is "none", "open" or "closed"
    hasOnClose,  \* per session: config.onClose is a function
    closeOnce,   \* per session: closeOnce is "fresh", "running" or "done"
    callpc,      \* per session and caller of close: where the call is
    teardownRuns, \* per session: how often the body of close has started
    onCloseCalls, \* per session: how often onClose has been invoked
    fpc,         \* per sftpOpen call: where it is and the session it names
    sftpClient,  \* per sftpOpen call: the sftp client it made
    ppc,         \* per portForwardStart call: where it is and the session it names
    fwd,         \* per portForwardStart call: the forward it made
    \* ---- one forward's message pump (portforward.go) ----
    pump,        \* handleTunnelMessages: "running" or "exited"
    sem,         \* len(fwd.sem)
    hpc,         \* per handler task: "free", or the request it serves
    sent503,     \* 503 responses sent for refused http_request frames
    sentTcpClose, \* tcp_close frames sent for refused tcp_open frames
    hid,         \* per handler task: the reqID or connID it was started with
    pending,     \* per writer (0 is the pump): the frame it has to write
    wsMu,        \* the tasks between fwd.wsMu.Lock() and fwd.wsMu.Unlock()
    \* ---- one forward's TCP connections (portforward.go) ----
    tcpChans,    \* fwd.tcpChans: per connID the handler whose inCh is stored, 0 if none
    tpc,         \* per TCP handler: "free", "dial" or "open" (its inCh is registered)
    tconn,       \* per TCP handler: its connID
    inCh,        \* per TCP handler: the payloads queued on its inCh
    cons,        \* per TCP handler, the Proxy -> SSH subtask: "none", "idle", "writing", "done"
    cdata,       \* per TCP handler: the payload its channel.Write is writing
    rdr,         \* per TCP handler, the SSH -> Proxy subtask: "none", "running", "done"
    chanSt,      \* per TCP handler, its SSH channel: "none", "open", "eof", "closed"
    tpump,       \* handleTunnelMessages: "reading", "blocked" on a full inCh, "exited"
    tpend,       \* the handler and payload of the send the pump is blocked on
    tctx,        \* fwd.ctx is cancelled
    tunnelSt,    \* fwd.tunnelConn: "open" or "closed"
    tstored,     \* the forward is in forwardStore
    cleanupOnce, \* fwd.cleanupOnce: "fresh" or "done"
    \* ---- history of the forward (not program state) ----
    cleanupRuns, \* how often the body of cleanup has run
    cleanedBy,   \* the caller whose cleanup ran the body
    nextSeq,     \* the binary frames are numbered 1, 2, 3, ... in arrival order
    sshOut,      \* per TCP handler: the last payload written to its SSH channel
    \* ---- handleHTTPRequest (portforward.go): one forwarded request ----
    rqpc,        \* where the handler is: "idle", "building", "written"
    headers,     \* the headers map of the inbound frame: name -> value
    rqLeft,      \* the keys the range over headers has not visited yet
    httpReq,     \* httpReq: the header lines built so far
    chanReq,     \* the header lines written to the SSH channel
    \* ---- one streaming upload (sftp_transfer.go) ----
    upStored,    \* the upload is in activeUploads
    dataCh,      \* state.dataCh: the sizes of the queued chunks
    dataClosed,  \* state.dataCh is closed
    doneCh,      \* state.doneCh is closed
    written,     \* state.written
    writeErr,    \* state.writeErr is set
    wrpc,        \* the writer task: "none", "ranging", "writing", "draining", "done"
    wchunk,      \* the chunk the writer task holds
    upc,         \* per write call: "idle", "sending", "sent", "resolved",
                 \* "rejected" (the sticky error), "notfound"
    usize,       \* per write call: the size of its chunk
    epc,         \* the end call: "idle", "waiting", "resolved", "rejected"
                 \* (the sticky error), "notfound"
    panicked,    \* a task has panicked: the program is gone
    \* ---- history of the upload (not program state) ----
    accepted,    \* the sum of the sizes of the chunks sent into dataCh
    waited,      \* the write calls issued while dataCh was full
    \* ---- one streaming download (sftp_transfer.go) ----
    dlStored,    \* the stream is in activeStreams
    fileSt,      \* state.file: "none", "open", "closed"
    remaining,   \* the chunks of the remote file not read yet
    doneSig,     \* state.done is closed
    dlOnce,      \* state.doneOnce: "fresh" or "done"
    dpc,         \* sftpDownloadStream: "none", "waiting", "resolved", "rejected"
    lastPull,    \* what the last streamPull returned
    \* ---- history of the download (not program state) ----
    cancels,     \* the calls of streamCancel so far
    doneCalls,   \* the calls of closeDone so far
    doneRaises,  \* how often close(s.done) has run
    \* ---- one non-streaming transfer (sftp_transfer.go) ----
    xop,         \* the operation: "none", "upload", "download"
    xpc,         \* where it is: "idle", "entered", "copied", "statted", "moving",
                 \* "resolved", "rejected"
    xsize,       \* the size of the payload or of the remote file
    xcopied,     \* the bytes of the payload copied into core memory
    xcreated,    \* the remote file has been created
    xopened,     \* the remote file has been opened
    xmoved,      \* the bytes written or read so far
    xerr,        \* the error of the rejection
    \* ---- one path-taking SFTP operation (sftp.go, sftp_transfer.go) ----
    fsop,         \* the operation: "none", "list", "stat", ..., "downloadStream"
    fsstrict,     \* ss.strict of the SFTP session
    fsargs,       \* the path arguments of the call
    fspc,         \* where it is: "idle", "called", "sent", "rejected"
    fsreq,       \* the paths of the request sent to the remote
    \* ---- one recursive remove (sftp.go) ----
    rmpc,        \* sftpRemove(path, true): "idle", "running", "done", "failed"
    rmkind,      \* the remote file system: what each entry is
    rmleft,      \* the entries that still exist
    rmstack,     \* the calls of removeRecursive in progress, innermost last
    rmdeleted,   \* the entries deleted so far, in order
    \* ---- awaitPromise (jsutil.go), per wait ----
    apc,         \* the waiting task: "idle", "waiting", "returned"
    promise,     \* the host promise: "pending", "true", "false", "rejected"
    reacted,     \* the host has run the reactions of the settled promise
    valCh,       \* ch: <<>> or the value sent by thenFn
    errCh,       \* errCh: <<>> or the error sent by catchFn
    actx,        \* ctx.Done() is closed
    funcs,       \* thenFn and catchFn are registered (not released)
    aout,        \* what awaitPromise returned: "none", "true", "false", "error", "timeout"
    \* ---- history of the waits (not program state) ----
    events,      \* the settlement and the deadline, in the order they happened
    lateCalls,   \* the calls of a released callback
    \* ---- the binary frame codec (portforward.go) ----
    frpc,        \* "idle", "pending" (a frame is to be parsed), "parsed"
    frbuf,       \* the frame: a sequence of bytes
    frsrc,       \* what buildBinaryFrameWASM was called with, if it built the frame
    frout,       \* what parseBinaryFrame returned
    \* ---- the in-memory agent and the auth methods of connect ----
    keyring,     \* the keys globalAgent holds
    aupc,        \* connect: "idle", "validate", "dial", "kex", "done"
    aucfg,       \* config.authMethod and the secret that goes with it
    auring,      \* the keys the agent held when buildAuthMethods ran
    ausock,      \* the WebSocket of this connect: "none", "open", "closed"
    auerr,       \* "" or the error connect rejected with
    \* ---- the steps of session.close, one at a time ----
    clpc,        \* 0: close not called; i: step i of CloseOrder is next
    clsess,      \* hasJump, hasOnClose: how the session was built
    clctx,       \* s.ctx is cancelled
    clsftp,      \* sftpStore: the session each SFTP id is registered for
    clclient,    \* the SFTP client of each id: "open" or "closed"
    clfwd,       \* forwardStore: the session each forward is registered for
    clclean,     \* the forwards whose cleanup has run
    clres,       \* stdin, sshSession, sshClient, conn, jumpClient, jumpConn
    clstored,    \* the session id is in sessionStore
    clnotified,  \* the calls of onClose
    \* ---- the keepalive task of a session ----
    kapc,        \* "select", "request" (SendRequest waits), "returned"
    failures,    \* the task's counter
    katick,      \* a tick waits in ticker.C
    kadone,      \* sessCtx is cancelled
    kaclosedBy,  \* who closed the session: "none", "keepalive", "other"
    kacalls,     \* the calls of sess.close by the task
    kahist,      \* the outcomes of the requests so far, TRUE for a reply
    kalate,      \* the requests issued with sessCtx cancelled
    \* ---- tcp_open frames and the tcp_close frames that answer them ----
    opc,         \* per permit: "free", "dial", "wait" (handleTCPOpen waits for its subtasks)
    oconn,       \* per permit: the connId of its handler
    odone,       \* per permit: the subtasks that have signalled done
    omap,        \* fwd.tcpChans: per connId the handler whose queue is stored, 0 if none
    opens,       \* per connId: the tcp_open frames received
    closes,      \* per connId: the tcp_close frames written or attempted
    otunnel,     \* the tunnel: "open" or "closed"
    octx,        \* fwd.ctx is cancelled
    \* ---- the tunnel stream as a carrier of frames (transport.go, portforward.go) ----
    mpc,         \* the reading side: "decode" (tunnel_ready is awaited), "pump"
    mq,          \* c.readCh of the tunnel adapter: the queued messages
    mbuf,        \* c.buf of the tunnel adapter
    msent,       \* history: the frames the relay sent after tunnel_ready
    mdisp,       \* history: the frames the pump dispatched
    mframes,     \* history: the frames the forwarder wrote
    mout,        \* history: the messages handed to ws.send
    \* ---- host callbacks invoked from core tasks (ssh.go, sftp_transfer.go) ----
    cbpc,         \* per task: "running", "invoking", "returned", "dead"
    cbcalls,      \* per task: the callback invocations that have returned
    cbexit,       \* the Go program has exited on an unrecovered panic
    \* ---- a download stream towards the browser (sftp_transfer.go, the page
    \*      bridge stream_helper.js, the service worker) ----
    bpc,         \* the worker's ReadableStream: "idle", "asked", "answered", "closed"
    bfile,       \* bytes of the remote file not read yet
    bopen,       \* the stream is registered and its reader open
    bmsg,        \* the message the bridge posted to the worker's port
    bread,       \* state.progress: the bytes streamPull has read
    bdeliv       \* the bytes the worker has enqueued on the download

wsVars == <<err, closed, ctxDone, readyState, readCh, buf, released,
            closePending, rpc, rarg,
            rdata, cpc, nextByte, readOut, lastRead, bigSeen, bigBytes,
            fullSeen, closeReturned>>

connVars == <<cfg, kpc, sock, dialCtx, jumpClient, netCh, sshClient, sshSession,
              hk, result, stored>>

sessVars == <<sessionStore, sftpStore, forwardStore, sstate, sctx, sclient,
              hasOnClose, closeOnce, callpc, teardownRuns, onCloseCalls, fpc,
              sftpClient, ppc, fwd>>

fwdVars == <<pump, sem, hpc, sent503, sentTcpClose, hid, pending, wsMu>>

tcpVars == <<tcpChans, tpc, tconn, inCh, cons, cdata, rdr, chanSt, tpump, tpend,
             tctx, tunnelSt, tstored, cleanupOnce, cleanupRuns, cleanedBy, nextSeq,
             sshOut>>

coreVars == <<wsVars, connVars, sessVars, fwdVars>>

httpVars == <<rqpc, headers, rqLeft, httpReq, chanReq>>

\* the transfer side of the library and the request handler
upVars == <<upStored, dataCh, dataClosed, doneCh, written, writeErr, wrpc, wchunk,
            upc, usize, epc, panicked, accepted, waited>>

dlVars == <<dlStored, fileSt, remaining, doneSig, dlOnce, dpc, lastPull, cancels,
            doneCalls, doneRaises>>

xferVars == <<xop, xpc, xsize, xcopied, xcreated, xopened, xmoved, xerr>>

xVars == <<httpVars, upVars, dlVars, xferVars>>

pathVars == <<fsop, fsstrict, fsargs, fspc, fsreq>>

\* the SFTP operations, the promise bridge and the frame codec
rmVars == <<rmpc, rmkind, rmleft, rmstack, rmdeleted>>

awaitVars == <<apc, promise, reacted, valCh, errCh, actx, funcs, aout, events, lateCalls>>

frameVars == <<frpc, frbuf, frsrc, frout>>

authVars == <<keyring, aupc, aucfg, auring, ausock, auerr>>

closeVars == <<clpc, clsess, clctx, clsftp, clclient, clfwd, clclean, clres,
               clstored, clnotified>>

kaVars == <<kapc, failures, katick, kadone, kaclosedBy, kacalls, kahist, kalate>>

openVars == <<opc, oconn, odone, omap, opens, closes, otunnel, octx>>

yVars == <<pathVars, rmVars, awaitVars, frameVars, authVars, closeVars, kaVars,
           openVars>>

muxVars == <<mpc, mq, mbuf, msent, mdisp, mframes, mout>>

hostVars == <<cbpc, cbcalls, cbexit>>

pullVars == <<bpc, bfile, bopen, bmsg, bread, bdeliv>>

zVars == <<muxVars, hostVars, pullVars>>

libVars == <<tcpVars, xVars, yVars, zVars>>

notHttp == <<coreVars, tcpVars, zVars, upVars, dlVars, xferVars, yVars>>

notUp == <<coreVars, tcpVars, zVars, httpVars, dlVars, xferVars, yVars>>

notDl == <<coreVars, tcpVars, zVars, httpVars, upVars, xferVars, yVars>>

notPath == <<coreVars, tcpVars, zVars, xVars, rmVars, awaitVars, frameVars, authVars, closeVars,
            kaVars, openVars>>

notRm == <<coreVars, tcpVars, zVars, xVars, pathVars, awaitVars, frameVars, authVars, closeVars,
            kaVars, openVars>>

notAwait == <<coreVars, tcpVars, zVars, xVars, pathVars, rmVars, frameVars, authVars, closeVars,
            kaVars, openVars>>

notFrame == <<coreVars, tcpVars, zVars, xVars, pathVars, rmVars, awaitVars, authVars, closeVars,
            kaVars, openVars>>

notAuth == <<coreVars, tcpVars, zVars, xVars, pathVars, rmVars, awaitVars, frameVars,
            closeVars, kaVars, openVars>>

notClose == <<coreVars, tcpVars, zVars, xVars, pathVars, rmVars, awaitVars, frameVars,
             authVars, kaVars, openVars>>

notKa == <<coreVars, tcpVars, zVars, xVars, pathVars, rmVars, awaitVars, frameVars,
          authVars, closeVars, openVars>>

notOpen == <<coreVars, tcpVars, zVars, xVars, pathVars, rmVars, awaitVars, frameVars,
            authVars, closeVars, kaVars>>

notXfer == <<coreVars, tcpVars, zVars, httpVars, upVars, dlVars, yVars>>

notMux == <<coreVars, tcpVars, xVars, yVars, hostVars, pullVars>>

notHost == <<coreVars, tcpVars, xVars, yVars, muxVars, pullVars>>

notPull == <<coreVars, tcpVars, xVars, yVars, muxVars, hostVars>>

vars == <<coreVars, libVars>>

\* the tasks that call wsConn.Close: the owner of the connection and a
\* second caller
Closers == {"owner", "other"}

NoRead == [valid |-> FALSE, bytes |-> <<>>, err |-> "nil", leftover |-> FALSE,
           p |-> 0, afterClose |-> FALSE, afterBig |-> FALSE]

NoFull == [choice |-> "none", errBefore |-> "nil"]

NoArg == [p |-> 0, afterClose |-> FALSE, afterBig |-> FALSE]

\* the bytes nextByte .. nextByte+size-1
Payload(from, size) == [i \in 1..size |-> from + i - 1]

\* the concatenation of the messages of a queue
RECURSIVE Flatten(_)
Flatten(q) == IF q = <<>> THEN <<>> ELSE Head(q) \o Flatten(Tail(q))

(***************************************************************************)
(* DialWebSocket has returned c: the socket is OPEN, nothing was received. *)
(***************************************************************************)
IdleWS ==
    /\ err = "nil"
    /\ closed = FALSE
    /\ ctxDone = FALSE
    /\ readyState = 1
    /\ readCh = <<>>
    /\ buf = <<>>
    /\ released = FALSE
    /\ closePending = FALSE
    /\ rpc = "idle"
    /\ rarg = NoArg
    /\ rdata = <<>>
    /\ cpc = [c \in Closers |-> "idle"]
    /\ nextByte = 1
    /\ readOut = <<>>
    /\ lastRead = NoRead
    /\ bigSeen = FALSE
    /\ bigBytes = {}
    /\ fullSeen = NoFull
    /\ closeReturned = FALSE

\* c.cancel(): a reader blocked in Read's select is woken by ctx.Done()
WakeByCancel(pc) == IF pc = "blocked" THEN "wokeDone" ELSE pc

\* the first error sticks: if c.err == nil { c.err = e }
SetErr(cur, e) == IF cur = "nil" THEN e ELSE cur

\* c.ws.Call("close") when the socket is CONNECTING or OPEN
CloseSocket(state) == IF state \in {0, 1} THEN 2 ELSE state

\* an onMessage without the size test
FrameNeverTooLarge(size) == FALSE

\* onMessage: size > wsMaxMessageSize
FrameTooLarge(size) == size > wsMaxMessageSize

\* onMessage's select: the cases that are ready.  The send is ready when
\* readCh has room or a reader is waiting on it; default runs only when no
\* other case is ready.
MessageSelect(qlen, readerWaiting, done) ==
    LET ready == (IF qlen < wsReadChanSize \/ readerWaiting THEN {"send"} ELSE {})
                 \cup (IF done THEN {"ctxDone"} ELSE {})
    IN IF ready = {} THEN {"default"} ELSE ready

(***************************************************************************)
(* The message event handler.  The browser fires message events only while *)
(* the socket is OPEN, and runs the handler unless it has been released.   *)
(***************************************************************************)
onMessage(size) ==
    /\ UNCHANGED <<connVars, sessVars, fwdVars, libVars>>
    /\ readyState = 1
    /\ ~released
    /\ nextByte + size - 1 <= MaxBytes
    /\ nextByte' = nextByte + size
    /\ LET data == Payload(nextByte, size) IN
       IF FrameTooLarge(size)
       THEN /\ err' = SetErr(err, "frameLarge")
            /\ ctxDone' = TRUE
            /\ rpc' = WakeByCancel(rpc)
            /\ readyState' = CloseSocket(readyState)
            /\ bigSeen' = TRUE
            /\ bigBytes' = bigBytes \cup {data[i] : i \in 1..size}
            /\ UNCHANGED <<readCh, rdata, fullSeen>>
       ELSE \E choice \in MessageSelect(Len(readCh), rpc = "blocked", ctxDone) :
            /\ fullSeen' = IF Len(readCh) >= wsReadChanSize /\ rpc # "blocked"
                           THEN [choice |-> choice, errBefore |-> err]
                           ELSE fullSeen
            /\ CASE choice = "send" ->
                       /\ IF rpc = "blocked"
                          THEN /\ rdata' = data
                               /\ rpc' = "wokeData"
                               /\ UNCHANGED readCh
                          ELSE /\ readCh' = Append(readCh, data)
                               /\ UNCHANGED <<rdata, rpc>>
                       /\ UNCHANGED <<err, ctxDone, readyState>>
                 [] choice = "ctxDone" ->
                       UNCHANGED <<err, ctxDone, readyState, readCh, rdata, rpc>>
                 [] choice = "default" ->
                       /\ err' = SetErr(err, "backpress")
                       /\ ctxDone' = TRUE
                       /\ rpc' = WakeByCancel(rpc)
                       /\ readyState' = CloseSocket(readyState)
                       /\ UNCHANGED <<readCh, rdata>>
            /\ UNCHANGED <<bigSeen, bigBytes>>
    /\ UNCHANGED <<closed, buf, released, closePending, rarg, cpc, readOut,
                   lastRead, closeReturned>>

(***************************************************************************)
(* The error event handler: the connection failed.  The browser sets the   *)
(* socket CLOSED and fires error, then close; no message follows.          *)
(***************************************************************************)
onError ==
    /\ UNCHANGED <<connVars, sessVars, fwdVars, libVars>>
    /\ readyState \in {1, 2}
    /\ ~released
    /\ err' = SetErr(err, "dialFailed")
    /\ readyState' = 3
    /\ closePending' = TRUE
    /\ UNCHANGED <<closed, ctxDone, readCh, buf, released, rpc, rarg, rdata, cpc,
                   nextByte, readOut, lastRead, bigSeen, bigBytes,
                   fullSeen, closeReturned>>

(***************************************************************************)
(* The close event handler: the socket reached CLOSED, by the peer, by     *)
(* ws.close() or after a failure.  A released handler does not run.        *)
(***************************************************************************)
onClose ==
    /\ UNCHANGED <<connVars, sessVars, fwdVars, libVars>>
    /\ readyState \in {1, 2} \/ closePending
    /\ readyState' = 3
    /\ closePending' = FALSE
    /\ IF released
       THEN UNCHANGED <<err, closed, ctxDone, rpc>>
       ELSE /\ err' = SetErr(err, "closed")
            /\ closed' = TRUE
            /\ ctxDone' = TRUE
            /\ rpc' = WakeByCancel(rpc)
    /\ UNCHANGED <<readCh, buf, released, rarg, rdata, cpc, nextByte, readOut,
                   lastRead, bigSeen, bigBytes, fullSeen, closeReturned>>

(***************************************************************************)
(* c.ctx is a child of the context handed to DialWebSocket: the dial       *)
(* context that sshConnect cancels when it returns, or the session's       *)
(* context for a tunnel.  Cancelling the parent cancels c.ctx and leaves   *)
(* c.err alone.                                                            *)
(***************************************************************************)
ParentCancel ==
    /\ UNCHANGED <<connVars, sessVars, fwdVars, libVars>>
    /\ ~ctxDone
    /\ ctxDone' = TRUE
    /\ rpc' = WakeByCancel(rpc)
    /\ UNCHANGED <<err, closed, readyState, readCh, buf, released, closePending,
                   rarg, rdata, cpc, nextByte, readOut, lastRead, bigSeen, bigBytes,
                   fullSeen, closeReturned>>

(***************************************************************************)
(* wsConn.Read.  ServeBuf is the copy out of c.buf; Receive is the copy of *)
(* a received message followed by the greedy, non-blocking drain of readCh *)
(* into the room that is left.                                             *)
(***************************************************************************)
ServeBuf(b, p) ==
    LET n == Min(p, Len(b))
    IN [out |-> SubSeq(b, 1, n), buf |-> SubSeq(b, n + 1, Len(b))]

\* for n < len(p) { select { case extra := <-c.readCh: ... default: return } }
RECURSIVE Greedy(_, _, _)
Greedy(out, p, q) ==
    IF Len(out) < p /\ q # <<>>
    THEN LET extra == Head(q)
             copied == Min(p - Len(out), Len(extra))
         IN IF copied < Len(extra)
            THEN [out |-> out \o SubSeq(extra, 1, copied),
                  buf |-> SubSeq(extra, copied + 1, Len(extra)),
                  q |-> Tail(q)]
            ELSE Greedy(out \o extra, p, Tail(q))
    ELSE [out |-> out, buf |-> <<>>, q |-> q]

\* n := copy(p, data); if n < len(data) { c.buf = data[n:] }; then the drain
Receive(data, p, q) ==
    LET n == Min(p, Len(data))
    IN IF n < Len(data)
       THEN [out |-> SubSeq(data, 1, n), buf |-> SubSeq(data, n + 1, Len(data)),
             q |-> q]
       ELSE Greedy(data, p, q)

\* a Read without the test of the recorded error
ReadNeverFailsFast(e) == FALSE

\* Read's first test: a recorded error stops the read before the select
ReadFailsFast(e) == e # "nil"

\* Read's select: the cases that are ready
ReadSelect(q, done) ==
    (IF q # <<>> THEN {"recv"} ELSE {}) \cup (IF done THEN {"ctxDone"} ELSE {})

\* ctxErr(): a cancelled context reads as io.EOF
ctxErr == "EOF"

Returned(bytes, e, leftover, arg) ==
    [valid |-> TRUE, bytes |-> bytes, err |-> e, leftover |-> leftover,
     p |-> arg.p, afterClose |-> arg.afterClose, afterBig |-> arg.afterBig]

\* Read(p) is called with a buffer of p bytes and runs until it returns or blocks
ReadCall(p) ==
    /\ UNCHANGED <<connVars, sessVars, fwdVars, libVars>>
    /\ rpc = "idle"
    /\ LET arg == [p |-> p, afterClose |-> closeReturned, afterBig |-> bigSeen] IN
       IF ReadFailsFast(err) \/ Len(buf) > 0
       THEN IF Len(buf) > 0
            THEN LET r == ServeBuf(buf, p) IN
                 /\ buf' = r.buf
                 /\ readOut' = readOut \o r.out
                 /\ lastRead' = Returned(r.out, "nil", TRUE, arg)
                 /\ UNCHANGED <<readCh, rpc, rarg>>
            ELSE /\ lastRead' = Returned(<<>>, err, FALSE, arg)
                 /\ UNCHANGED <<buf, readOut, readCh, rpc, rarg>>
       ELSE IF ReadSelect(readCh, ctxDone) = {}
            THEN /\ rpc' = "blocked"
                 /\ rarg' = arg
                 /\ UNCHANGED <<buf, readOut, readCh, lastRead>>
            ELSE \E choice \in ReadSelect(readCh, ctxDone) :
                 IF choice = "recv"
                 THEN LET r == Receive(Head(readCh), p, Tail(readCh)) IN
                      /\ buf' = r.buf
                      /\ readCh' = r.q
                      /\ readOut' = readOut \o r.out
                      /\ lastRead' = Returned(r.out, "nil", FALSE, arg)
                      /\ UNCHANGED <<rpc, rarg>>
                 ELSE /\ lastRead' = Returned(<<>>, ctxErr, FALSE, arg)
                      /\ UNCHANGED <<buf, readOut, readCh, rpc, rarg>>
    /\ UNCHANGED <<err, closed, ctxDone, readyState, released, closePending, rdata,
                   cpc, nextByte, bigSeen, bigBytes, fullSeen,
                   closeReturned>>

\* the blocked Read resumes with the case that woke it
ReadResume ==
    /\ UNCHANGED <<connVars, sessVars, fwdVars, libVars>>
    /\ rpc \in {"wokeData", "wokeDone"}
    /\ rpc' = "idle"
    /\ rarg' = NoArg
    /\ rdata' = <<>>
    /\ IF rpc = "wokeData"
       THEN LET r == Receive(rdata, rarg.p, readCh) IN
            /\ buf' = r.buf
            /\ readCh' = r.q
            /\ readOut' = readOut \o r.out
            /\ lastRead' = Returned(r.out, "nil", FALSE, rarg)
       ELSE /\ lastRead' = Returned(<<>>, ctxErr, FALSE, rarg)
            /\ UNCHANGED <<buf, readCh, readOut>>
    /\ UNCHANGED <<err, closed, ctxDone, readyState, released, closePending, cpc,
                   nextByte, bigSeen, bigBytes, fullSeen, closeReturned>>

(***************************************************************************)
(* wsConn.Close.  Nothing in it blocks: the section under c.mu, the        *)
(* cancel, the close of the socket and the release of the callbacks are    *)
(* one step.                                                               *)
(***************************************************************************)
Close(c) ==
    /\ UNCHANGED <<connVars, sessVars, fwdVars, libVars>>
    /\ cpc[c] = "idle"
    /\ cpc' = [cpc EXCEPT ![c] = "done"]
    /\ closeReturned' = TRUE
    /\ IF closed
       THEN UNCHANGED <<closed, err, ctxDone, rpc, readyState, released>>
       ELSE /\ closed' = TRUE
            /\ err' = SetErr(err, "closed")
            /\ ctxDone' = TRUE
            /\ rpc' = WakeByCancel(rpc)
            /\ readyState' = CloseSocket(readyState)
            /\ released' = TRUE
    /\ UNCHANGED <<readCh, buf, closePending, rarg, rdata, nextByte, readOut,
                   lastRead, bigSeen, bigBytes, fullSeen>>

NextWS ==
    \/ \E size \in MsgSizes : onMessage(size)
    \/ onError
    \/ onClose
    \/ ParentCancel
    \/ \E p \in 0..MaxBuf : ReadCall(p)
    \/ ReadResume
    \/ \E c \in Closers : Close(c)


(***************************************************************************)
(* sshConnect: one connect attempt, from the config to the settled         *)
(* promise.  The steps of the environment (the relay, the servers, the     *)
(* host's onHostKey promise) are chosen freely.                            *)
(***************************************************************************)
\* the proxy URLs of the model: none, white space only, one per scheme, and
\* one that url.Parse refuses (a bad escape in the host)
URLs == {"", " ", "wss://relay", "WSS://relay", "ws://relay", "http://relay",
         "wss://%zz"}

\* url.Parse(raw) succeeds
Parses(raw) == raw # "wss://%zz"

\* u.Scheme after url.Parse
Scheme(raw) ==
    CASE raw = "wss://relay" -> "wss"
      [] raw = "WSS://relay" -> "WSS"
      [] raw = "ws://relay" -> "ws"
      [] raw = "http://relay" -> "http"
      [] OTHER -> ""

\* strings.TrimSpace on the URLs of the model
TrimSpace(raw) == IF raw = " " THEN "" ELSE raw

\* strings.ToLower on the schemes of the model
ToLower(scheme) == IF scheme = "WSS" THEN "wss" ELSE scheme

Configs ==
    [proxyUrl : URLs,                 \* config.proxyUrl
     hostUserOK : BOOLEAN,            \* host and username are given
     authOK : BOOLEAN,                \* buildAuthMethods(config) succeeds
     allowInsecureWS : BOOLEAN,
     onHostKey : BOOLEAN,             \* config.onHostKey is a function
     allowInsecureHostKey : BOOLEAN,
     hasJump : BOOLEAN,               \* config.jumpHost is given
     jumpOK : BOOLEAN,                \* jumpHost has host, username and usable auth
     jumpOnHostKey : BOOLEAN]         \* jumpHost.onHostKey is a function

NoCfg == [proxyUrl |-> "", hostUserOK |-> FALSE, authOK |-> FALSE,
          allowInsecureWS |-> FALSE, onHostKey |-> FALSE,
          allowInsecureHostKey |-> FALSE, hasJump |-> FALSE, jumpOK |-> FALSE,
          jumpOnHostKey |-> FALSE]

Hosts == {"jump", "final"}

\* how a host key was decided: not yet, accepted without a check
\* (ssh.InsecureIgnoreHostKey), or by the settled onHostKey promise
NoDecision == [asked |-> FALSE, outcome |-> "none", accepted |-> FALSE,
               insecure |-> FALSE]

\* the ways the promise returned by onHostKey can end
PromiseOutcomes == {"true", "false", "reject", "timeout", "nonBool"}

\* parseWebSocketURL(raw, allowInsecure): "ok" or the error
parseWebSocketURL(raw, allowInsecure) ==
    IF TrimSpace(raw) = "" THEN "proxy URL is required"
    ELSE IF ~Parses(raw) THEN "invalid WebSocket URL"
    ELSE IF ToLower(Scheme(raw)) = "wss" THEN "ok"
    ELSE IF ToLower(Scheme(raw)) = "ws"
         THEN IF allowInsecure THEN "ok" ELSE "insecure ws:// URL blocked"
    ELSE "WebSocket URL must use ws:// or wss://"

\* getCallback(config, name): a function only when the property is callable
getCallback(isFunction) == isFunction

\* makeHostKeyCallback(config): without a callable onHostKey the callback is
\* ssh.InsecureIgnoreHostKey(), whatever allowInsecureHostKey says
makeHostKeyCallback(hasOnHostKey, allowInsecure) ==
    IF getCallback(hasOnHostKey) THEN "askHost" ELSE "insecureIgnore"

\* a callback that does not look at the value the promise resolved to
HostKeyVerdictUnchecked(outcome) ==
    IF outcome \in {"true", "false", "nonBool"} THEN "nil"
    ELSE "host key verification failed"

\* the callback's verdict once awaitPromise has returned: "nil" accepts the
\* key; result.Bool() panics on a value that is not a boolean
HostKeyVerdict(outcome) ==
    CASE outcome = "true" -> "nil"
      [] outcome = "false" -> "host key rejected by user"
      [] outcome = "nonBool" -> "panic"
      [] OTHER -> "host key verification failed"

StartConn ==
    /\ cfg \in Configs
    /\ kpc = "start"
    /\ sock = "none"
    /\ dialCtx = "none"
    /\ jumpClient = "none"
    /\ netCh = "none"
    /\ sshClient = "none"
    /\ sshSession = "none"
    /\ hk = [h \in Hosts |-> NoDecision]
    /\ result = "pending"
    /\ stored = FALSE

IdleConn ==
    /\ cfg = NoCfg
    /\ kpc = "off"
    /\ sock = "none"
    /\ dialCtx = "none"
    /\ jumpClient = "none"
    /\ netCh = "none"
    /\ sshClient = "none"
    /\ sshSession = "none"
    /\ hk = [h \in Hosts |-> NoDecision]
    /\ result = "pending"
    /\ stored = FALSE

\* return nil, err: the deferred dialCancel runs and the promise rejects
Reject ==
    /\ kpc' = "done"
    /\ result' = "rejected"
    /\ dialCtx' = IF dialCtx = "live" THEN "cancelled" ELSE dialCtx

\* ssh.go:66-109 and 142-152: the checks made before anything is dialled
ConnectValidate ==
    /\ kpc = "start"
    /\ IF cfg.proxyUrl = "" \/ ~cfg.hostUserOK \/ ~cfg.authOK
          \/ (cfg.hasJump /\ ~cfg.jumpOK)
          \/ ~Parses(cfg.proxyUrl)
       THEN Reject
       ELSE /\ kpc' = "dial"
            /\ UNCHANGED <<result, dialCtx>>
    /\ UNCHANGED <<cfg, sock, jumpClient, netCh, sshClient, sshSession, hk, stored>>
    /\ UNCHANGED <<wsVars, sessVars, fwdVars, libVars>>

\* DialWebSocket(dialCtx, u.String()): the socket is created for whatever
\* URL it is given; the dial ends with the socket open, with an error event
\* or with the dial context expiring.  The browser may refuse ("throw") a
\* scheme that is neither ws nor wss, which panics the caller.
ConnectDial ==
    /\ kpc = "dial"
    /\ \E how \in {"open", "error", "timeout", "throw"} :
       /\ how = "throw" => ToLower(Scheme(cfg.proxyUrl)) \notin {"ws", "wss"}
       /\ CASE how = "open" ->
                  /\ sock' = "open"
                  /\ dialCtx' = "live"
                  /\ kpc' = IF cfg.hasJump THEN "jumpKex" ELSE "kex"
                  /\ UNCHANGED result
            [] how = "error" ->
                  /\ sock' = "closed"
                  /\ kpc' = "done"
                  /\ result' = "rejected"
                  /\ dialCtx' = "cancelled"
            [] how = "timeout" ->
                  /\ sock' = "connecting"
                  /\ kpc' = "done"
                  /\ result' = "rejected"
                  /\ dialCtx' = "cancelled"
            [] how = "throw" ->
                  /\ kpc' = "panicked"
                  /\ UNCHANGED <<sock, dialCtx, result>>
    /\ UNCHANGED <<cfg, jumpClient, netCh, sshClient, sshSession, hk, stored>>
    /\ UNCHANGED <<wsVars, sessVars, fwdVars, libVars>>

\* what sshConnect closes when a handshake fails: jConn for the jump host
\* (ssh.go:128-131), netConn and the jump client for the final host
\* (ssh.go:173-179)
HandshakeFailed(h) ==
    /\ IF h = "jump"
       THEN /\ sock' = "closed"
            /\ UNCHANGED <<netCh, jumpClient>>
       ELSE IF cfg.hasJump
            THEN /\ netCh' = "closed"
                 /\ jumpClient' = "closed"
                 /\ sock' = "closed"
            ELSE /\ sock' = "closed"
                 /\ UNCHANGED <<netCh, jumpClient>>
    /\ Reject

\* ssh.NewClientConn up to the server's host key: the key exchange fails, or
\* the host key callback is called
Kex(h) ==
    /\ kpc = (IF h = "jump" THEN "jumpKex" ELSE "kex")
    /\ \/ /\ HandshakeFailed(h)
          /\ UNCHANGED hk
       \/ LET cb == IF h = "jump"
                    THEN makeHostKeyCallback(cfg.jumpOnHostKey, FALSE)
                    ELSE makeHostKeyCallback(cfg.onHostKey, cfg.allowInsecureHostKey)
          IN IF cb = "insecureIgnore"
             THEN /\ hk' = [hk EXCEPT ![h] = [asked |-> FALSE, outcome |-> "none",
                                              accepted |-> TRUE, insecure |-> TRUE]]
                  /\ kpc' = (IF h = "jump" THEN "jumpAuth" ELSE "auth")
                  /\ UNCHANGED <<sock, netCh, jumpClient, result, dialCtx>>
             ELSE /\ hk' = [hk EXCEPT ![h].asked = TRUE]
                  /\ kpc' = (IF h = "jump" THEN "jumpAwait" ELSE "await")
                  /\ UNCHANGED <<sock, netCh, jumpClient, result, dialCtx>>
    /\ UNCHANGED <<cfg, sshClient, sshSession, stored>>
    /\ UNCHANGED <<wsVars, sessVars, fwdVars, libVars>>

\* awaitPromise returns: the promise has resolved or rejected, or the five
\* minutes are over; the callback returns its verdict to the handshake
HostKeySettle(h) ==
    /\ kpc = (IF h = "jump" THEN "jumpAwait" ELSE "await")
    /\ \E outcome \in PromiseOutcomes :
       LET verdict == HostKeyVerdict(outcome) IN
       /\ hk' = [hk EXCEPT ![h].outcome = outcome, ![h].accepted = (verdict = "nil")]
       /\ CASE verdict = "nil" ->
                  /\ kpc' = (IF h = "jump" THEN "jumpAuth" ELSE "auth")
                  /\ UNCHANGED <<sock, netCh, jumpClient, result, dialCtx>>
            [] verdict = "panic" ->
                  /\ kpc' = "panicked"
                  /\ UNCHANGED <<sock, netCh, jumpClient, result, dialCtx>>
            [] OTHER -> HandshakeFailed(h)
    /\ UNCHANGED <<cfg, sshClient, sshSession, stored>>
    /\ UNCHANGED <<wsVars, sessVars, fwdVars, libVars>>

\* the rest of ssh.NewClientConn: user authentication
Auth(h) ==
    /\ kpc = (IF h = "jump" THEN "jumpAuth" ELSE "auth")
    /\ \/ HandshakeFailed(h) /\ UNCHANGED <<sshClient>>
       \/ /\ IF h = "jump"
             THEN /\ jumpClient' = "open"
                  /\ kpc' = "jumpTunnel"
                  /\ UNCHANGED sshClient
             ELSE /\ sshClient' = "open"
                  /\ kpc' = "newSession"
                  /\ UNCHANGED jumpClient
          /\ UNCHANGED <<sock, netCh, result, dialCtx>>
    /\ UNCHANGED <<cfg, sshSession, hk, stored>>
    /\ UNCHANGED <<wsVars, sessVars, fwdVars, libVars>>

\* jumpClient.Dial("tcp", host:port), ssh.go:135-139
JumpTunnel ==
    /\ kpc = "jumpTunnel"
    /\ \/ /\ netCh' = "open"
          /\ kpc' = "kex"
          /\ UNCHANGED <<jumpClient, sock, result, dialCtx>>
       \/ /\ jumpClient' = "closed"
          /\ sock' = "closed"
          /\ Reject
          /\ UNCHANGED netCh
    /\ UNCHANGED <<cfg, sshClient, sshSession, hk, stored>>
    /\ UNCHANGED <<wsVars, sessVars, fwdVars, libVars>>

\* sshClient.Close(): the client and the connection under it, which is the
\* WebSocket of a direct connect and the jump channel otherwise
CloseSSHClient ==
    /\ sshClient' = "closed"
    /\ IF cfg.hasJump
       THEN netCh' = "closed" /\ UNCHANGED sock
       ELSE sock' = "closed" /\ UNCHANGED netCh

\* sshClient.NewSession(), ssh.go:195-199
NewSession ==
    /\ kpc = "newSession"
    /\ \/ /\ sshSession' = "open"
          /\ kpc' = "pty"
          /\ UNCHANGED <<sshClient, sock, netCh, result, dialCtx>>
       \/ /\ CloseSSHClient
          /\ Reject
          /\ UNCHANGED sshSession
    /\ UNCHANGED <<cfg, jumpClient, hk, stored>>
    /\ UNCHANGED <<wsVars, sessVars, fwdVars, libVars>>

SetupSteps == <<"pty", "stdin", "stdout", "shell", "store">>

\* RequestPty, StdinPipe, StdoutPipe and Shell, ssh.go:222-249
SessionSetup ==
    /\ \E i \in 1..4 :
       /\ kpc = SetupSteps[i]
       /\ \/ /\ kpc' = SetupSteps[i + 1]
             /\ UNCHANGED <<sshSession, sshClient, sock, netCh, result, dialCtx>>
          \/ /\ sshSession' = "closed"
             /\ CloseSSHClient
             /\ Reject
    /\ UNCHANGED <<cfg, jumpClient, hk, stored>>
    /\ UNCHANGED <<wsVars, sessVars, fwdVars, libVars>>

\* sessionStore.Store(sessionID, sess) and return sessionID, ssh.go:274-318
ConnectStore ==
    /\ kpc = "store"
    /\ stored' = TRUE
    /\ kpc' = "done"
    /\ result' = "resolved"
    /\ dialCtx' = "cancelled"
    /\ UNCHANGED <<cfg, sock, jumpClient, netCh, sshClient, sshSession, hk>>
    /\ UNCHANGED <<wsVars, sessVars, fwdVars, libVars>>

NextConn ==
    \/ ConnectValidate
    \/ ConnectDial
    \/ \E h \in Hosts : Kex(h)
    \/ \E h \in Hosts : HostKeySettle(h)
    \/ \E h \in Hosts : Auth(h)
    \/ JumpTunnel
    \/ NewSession
    \/ SessionSetup
    \/ ConnectStore


(***************************************************************************)
(* Sessions, the three registries, and the calls that race with            *)
(* session.close: sftpOpen, sftpClose, portForwardStart, portForwardStop   *)
(* and the forward's message pump.                                         *)
(***************************************************************************)
Sessions == {"s1", "s2"}

\* the tasks that call session.close: the stdout pump, the keepalive task and
\* the host through sshDisconnect
Callers == {"pump", "keepalive", "host"}

\* the callers of close the model follows: all three for the first session;
\* the second session's transport stays healthy, so only the host closes it
CallersOf(s) == IF s = "s1" THEN Callers ELSE {"host"}

\* the sftpOpen calls of a behaviour; a call that succeeds stores an SFTP
\* session under a fresh id, here the name of the call
SftpCalls == {"f1"}

\* the portForwardStart calls of a behaviour
FwdCalls == {"t1"}

NoSession == "-"

NoForward == [ctxDone |-> FALSE, conn |-> "none", cleaned |-> FALSE, pump |-> "none"]

IdleSess ==
    /\ sessionStore = {}
    /\ sftpStore = {}
    /\ forwardStore = {}
    /\ sstate = [s \in Sessions |-> "new"]
    /\ sctx = [s \in Sessions |-> FALSE]
    /\ sclient = [s \in Sessions |-> "none"]
    /\ hasOnClose = [s \in Sessions |-> FALSE]
    /\ closeOnce = [s \in Sessions |-> "fresh"]
    /\ callpc = [s \in Sessions |-> [c \in Callers |-> "idle"]]
    /\ teardownRuns = [s \in Sessions |-> 0]
    /\ onCloseCalls = [s \in Sessions |-> 0]
    /\ fpc = [t \in SftpCalls |-> [pc |-> "idle", sid |-> NoSession]]
    /\ sftpClient = [t \in SftpCalls |-> "none"]
    /\ ppc = [t \in FwdCalls |-> [pc |-> "idle", sid |-> NoSession]]
    /\ fwd = [t \in FwdCalls |-> NoForward]

\* the hosts differ in whether they pass an onClose function
StartSess ==
    /\ sessionStore = {}
    /\ sftpStore = {}
    /\ forwardStore = {}
    /\ sstate = [s \in Sessions |-> "new"]
    /\ sctx = [s \in Sessions |-> FALSE]
    /\ sclient = [s \in Sessions |-> "none"]
    /\ hasOnClose \in [Sessions -> BOOLEAN]
    /\ closeOnce = [s \in Sessions |-> "fresh"]
    /\ callpc = [s \in Sessions |-> [c \in Callers |-> "idle"]]
    /\ teardownRuns = [s \in Sessions |-> 0]
    /\ onCloseCalls = [s \in Sessions |-> 0]
    /\ fpc = [t \in SftpCalls |-> [pc |-> "idle", sid |-> NoSession]]
    /\ sftpClient = [t \in SftpCalls |-> "none"]
    /\ ppc = [t \in FwdCalls |-> [pc |-> "idle", sid |-> NoSession]]
    /\ fwd = [t \in FwdCalls |-> NoForward]

\* sshConnect's last step: the session object is built and stored
SessionStored(s) ==
    /\ sstate[s] = "new"
    /\ sstate' = [sstate EXCEPT ![s] = "live"]
    /\ sclient' = [sclient EXCEPT ![s] = "open"]
    /\ sessionStore' = sessionStore \cup {s}
    /\ UNCHANGED <<sftpStore, forwardStore, sctx, hasOnClose, closeOnce, callpc,
                   teardownRuns, onCloseCalls, fpc, sftpClient, ppc, fwd>>
    /\ UNCHANGED <<wsVars, connVars, fwdVars, libVars>>

\* a close without closeOnce: every caller runs the body
OnceAdmitsAll(once) == TRUE

\* sync.Once.Do runs the function for the first caller only
OnceAdmits(once) == once = "fresh"

\* the entries of a registry that belong to session s
BoundTo(store, s) == {e \in store : e.sessionID = s}

\* portForward.cleanup: cleanupOnce guards cancel, tunnelConn.Close and the
\* removal from forwardStore; the pump's next read then fails
Cleaned(f) == [f EXCEPT !.ctxDone = TRUE,
                        !.conn = IF f.conn = "none" THEN "none" ELSE "closed",
                        !.cleaned = TRUE]

\* the forwards after cleanup() has been called on those of the set ids
CleanupAll(ids) == [t \in FwdCalls |-> IF t \in ids /\ ~fwd[t].cleaned
                                       THEN Cleaned(fwd[t]) ELSE fwd[t]]

\* forwardStore after cleanup() has been called on the forwards of the set
\* ids: only the first cleanup of a forward deletes its entry
DeleteCleaned(ids) == {e \in forwardStore : ~(e.id \in ids /\ ~fwd[e.id].cleaned)}

\* a task calls sess.close(reason).  sshDisconnect looks the session up first
\* and does nothing when it is not registered.  The caller that closeOnce
\* admits runs the body: s.cancel() and the Range over sftpStore, which closes
\* and deletes every SFTP session of s.  Any other caller waits for the body
\* to finish, or returns at once when it has.
CallClose(s, c) ==
    /\ sstate[s] = "live"
    /\ callpc[s][c] = "idle"
    /\ IF c = "host" /\ s \notin sessionStore
       THEN /\ callpc' = [callpc EXCEPT ![s][c] = "skipped"]
            /\ UNCHANGED <<closeOnce, teardownRuns, sctx, sftpClient, sftpStore>>
       ELSE IF OnceAdmits(closeOnce[s])
       THEN /\ callpc' = [callpc EXCEPT ![s][c] = "forwards"]
            /\ closeOnce' = [closeOnce EXCEPT ![s] = "running"]
            /\ teardownRuns' = [teardownRuns EXCEPT ![s] = @ + 1]
            /\ sctx' = [sctx EXCEPT ![s] = TRUE]
            /\ sftpClient' = [t \in SftpCalls |->
                                IF \E e \in BoundTo(sftpStore, s) : e.id = t
                                THEN "closed" ELSE sftpClient[t]]
            /\ sftpStore' = sftpStore \ BoundTo(sftpStore, s)
       ELSE /\ callpc' = [callpc EXCEPT ![s][c] =
                             IF closeOnce[s] = "done" THEN "returned" ELSE "waiting"]
            /\ UNCHANGED <<closeOnce, teardownRuns, sctx, sftpClient, sftpStore>>
    /\ UNCHANGED <<sessionStore, forwardStore, sstate, sclient, hasOnClose,
                   onCloseCalls, fpc, ppc, fwd>>
    /\ UNCHANGED <<wsVars, connVars, fwdVars, libVars>>

\* the keepalive task sees sessCtx.Done() and returns
KeepaliveStop(s) ==
    /\ "keepalive" \in CallersOf(s)
    /\ sstate[s] = "live"
    /\ callpc[s]["keepalive"] = "idle"
    /\ sctx[s]
    /\ callpc' = [callpc EXCEPT ![s]["keepalive"] = "skipped"]
    /\ UNCHANGED <<sessionStore, sftpStore, forwardStore, sstate, sctx, sclient,
                   hasOnClose, closeOnce, teardownRuns, onCloseCalls, fpc,
                   sftpClient, ppc, fwd>>
    /\ UNCHANGED <<wsVars, connVars, fwdVars, libVars>>

\* the Range over forwardStore: cleanup() on every forward of s
TeardownForwards(s, c) ==
    /\ callpc[s][c] = "forwards"
    /\ callpc' = [callpc EXCEPT ![s][c] = "resources"]
    /\ LET ids == {e.id : e \in BoundTo(forwardStore, s)} IN
       /\ fwd' = CleanupAll(ids)
       /\ forwardStore' = DeleteCleaned(ids)
    /\ UNCHANGED <<sessionStore, sftpStore, sstate, sctx, sclient, hasOnClose,
                   closeOnce, teardownRuns, onCloseCalls, fpc, sftpClient, ppc>>
    /\ UNCHANGED <<wsVars, connVars, fwdVars, libVars>>

\* stdin, the ssh session, the ssh client, the WebSocket and the jump host's
\* client and WebSocket are closed
TeardownResources(s, c) ==
    /\ callpc[s][c] = "resources"
    /\ callpc' = [callpc EXCEPT ![s][c] = "delete"]
    /\ sclient' = [sclient EXCEPT ![s] = "closed"]
    /\ UNCHANGED <<sessionStore, sftpStore, forwardStore, sstate, sctx, hasOnClose,
                   closeOnce, teardownRuns, onCloseCalls, fpc, sftpClient, ppc, fwd>>
    /\ UNCHANGED <<wsVars, connVars, fwdVars, libVars>>

\* sessionStore.Delete(s.id), onClose.Invoke(reason) when onClose is a
\* function, and the return of Do
TeardownNotify(s, c) ==
    /\ callpc[s][c] = "delete"
    /\ callpc' = [callpc EXCEPT ![s][c] = "returned"]
    /\ sessionStore' = sessionStore \ {s}
    /\ onCloseCalls' = [onCloseCalls EXCEPT ![s] = IF hasOnClose[s] THEN @ + 1 ELSE @]
    /\ closeOnce' = [closeOnce EXCEPT ![s] = "done"]
    /\ UNCHANGED <<sftpStore, forwardStore, sstate, sctx, sclient, hasOnClose,
                   teardownRuns, fpc, sftpClient, ppc, fwd>>
    /\ UNCHANGED <<wsVars, connVars, fwdVars, libVars>>

\* a caller that found the teardown running returns when it has finished
CloseReturn(s, c) ==
    /\ callpc[s][c] = "waiting"
    /\ closeOnce[s] = "done"
    /\ callpc' = [callpc EXCEPT ![s][c] = "returned"]
    /\ UNCHANGED <<sessionStore, sftpStore, forwardStore, sstate, sctx, sclient,
                   hasOnClose, closeOnce, teardownRuns, onCloseCalls, fpc,
                   sftpClient, ppc, fwd>>
    /\ UNCHANGED <<wsVars, connVars, fwdVars, libVars>>

\* sftpOpen(sessionID) up to the point where sftp.NewClient waits for the
\* server: the session must be registered
SftpOpenLoad(t, s) ==
    /\ fpc[t].pc = "idle"
    /\ fpc' = [fpc EXCEPT ![t] = IF s \in sessionStore
                                 THEN [pc |-> "newClient", sid |-> s]
                                 ELSE [pc |-> "rejected", sid |-> s]]
    /\ UNCHANGED <<sessionStore, sftpStore, forwardStore, sstate, sctx, sclient,
                   hasOnClose, closeOnce, callpc, teardownRuns, onCloseCalls,
                   sftpClient, ppc, fwd>>
    /\ UNCHANGED <<wsVars, connVars, fwdVars, libVars>>

\* the outcomes sftp.NewClient can have: the server's version packet can only
\* arrive on a client that is open
NewClientOutcomes(client) == IF client = "open" THEN {"ok", "error"} ELSE {"error"}

\* the server's answer (or the failure of the connection) makes the waiting
\* sftpOpen task runnable
SftpNewClientReply(t) ==
    /\ fpc[t].pc = "newClient"
    /\ \E o \in NewClientOutcomes(sclient[fpc[t].sid]) :
       fpc' = [fpc EXCEPT ![t].pc = IF o = "ok" THEN "gotClient" ELSE "failed"]
    /\ UNCHANGED <<sessionStore, sftpStore, forwardStore, sstate, sctx, sclient,
                   hasOnClose, closeOnce, callpc, teardownRuns, onCloseCalls,
                   sftpClient, ppc, fwd>>
    /\ UNCHANGED <<wsVars, connVars, fwdVars, libVars>>

\* the task runs again: sftp.NewClient returns, and on success the new SFTP
\* session is stored without another look at sessionStore
SftpOpenReturn(t) ==
    /\ fpc[t].pc \in {"gotClient", "failed"}
    /\ IF fpc[t].pc = "gotClient"
       THEN /\ sftpStore' = sftpStore \cup {[id |-> t, sessionID |-> fpc[t].sid]}
            /\ sftpClient' = [sftpClient EXCEPT ![t] = "open"]
            /\ fpc' = [fpc EXCEPT ![t].pc = "resolved"]
       ELSE /\ fpc' = [fpc EXCEPT ![t].pc = "rejected"]
            /\ UNCHANGED <<sftpStore, sftpClient>>
    /\ UNCHANGED <<sessionStore, forwardStore, sstate, sctx, sclient, hasOnClose,
                   closeOnce, callpc, teardownRuns, onCloseCalls, ppc, fwd>>
    /\ UNCHANGED <<wsVars, connVars, fwdVars, libVars>>

\* sftpClose(sftpID): LoadAndDelete, then the client is closed
sftpClose(t) ==
    /\ \E e \in sftpStore : e.id = t
    /\ sftpStore' = {e \in sftpStore : e.id # t}
    /\ sftpClient' = [sftpClient EXCEPT ![t] = "closed"]
    /\ UNCHANGED <<sessionStore, forwardStore, sstate, sctx, sclient, hasOnClose,
                   closeOnce, callpc, teardownRuns, onCloseCalls, fpc, ppc, fwd>>
    /\ UNCHANGED <<wsVars, connVars, fwdVars, libVars>>

\* portForwardStart(sessionID, config) up to the dial of the tunnel: the
\* session must be registered and the config complete; the tunnel's context
\* is a child of sess.ctx
PortForwardLoad(t, s) ==
    /\ ppc[t].pc = "idle"
    /\ \E configOK \in BOOLEAN :
       ppc' = [ppc EXCEPT ![t] = IF s \in sessionStore /\ configOK
                                 THEN [pc |-> "dial", sid |-> s]
                                 ELSE [pc |-> "rejected", sid |-> s]]
    /\ UNCHANGED <<sessionStore, sftpStore, forwardStore, sstate, sctx, sclient,
                   hasOnClose, closeOnce, callpc, teardownRuns, onCloseCalls, fpc,
                   sftpClient, fwd>>
    /\ UNCHANGED <<wsVars, connVars, fwdVars, libVars>>

\* the case that ends DialWebSocket's final select.  The socket's events are
\* delivered only while the task waits in the select, so under a parent that
\* is already cancelled the select ends with ctx.Done(); otherwise the first
\* event of the socket ends it.
DialOutcomes(parentDone) ==
    IF parentDone THEN {"ctxDone"} ELSE {"open", "error"}

\* DialWebSocket returns to portForwardStart
PortForwardDialled(t) ==
    /\ ppc[t].pc = "dial"
    /\ \E o \in DialOutcomes(sctx[ppc[t].sid]) :
       IF o = "open"
       THEN /\ ppc' = [ppc EXCEPT ![t].pc = "awaitReady"]
            /\ fwd' = [fwd EXCEPT ![t].conn = "open", ![t].ctxDone = sctx[ppc[t].sid]]
       ELSE /\ ppc' = [ppc EXCEPT ![t].pc = "rejected"]
            /\ fwd' = [fwd EXCEPT ![t].ctxDone = TRUE]
    /\ UNCHANGED <<sessionStore, sftpStore, forwardStore, sstate, sctx, sclient,
                   hasOnClose, closeOnce, callpc, teardownRuns, onCloseCalls, fpc,
                   sftpClient>>
    /\ UNCHANGED <<wsVars, connVars, fwdVars, libVars>>

\* the decoder of tunnel_ready returns: with the message, in which case the
\* forward is stored and its pump started, or with an error or another
\* message, in which case the tunnel is closed
PortForwardReady(t) ==
    /\ ppc[t].pc = "awaitReady"
    /\ \E ready \in BOOLEAN :
       IF ready
       THEN /\ ppc' = [ppc EXCEPT ![t].pc = "resolved"]
            /\ forwardStore' = forwardStore \cup {[id |-> t, sessionID |-> ppc[t].sid]}
            /\ fwd' = [fwd EXCEPT ![t].pump = "running",
                                  ![t].ctxDone = @ \/ sctx[ppc[t].sid]]
       ELSE /\ ppc' = [ppc EXCEPT ![t].pc = "rejected"]
            /\ fwd' = [fwd EXCEPT ![t].conn = "closed", ![t].ctxDone = TRUE]
            /\ UNCHANGED forwardStore
    /\ UNCHANGED <<sessionStore, sftpStore, sstate, sctx, sclient, hasOnClose,
                   closeOnce, callpc, teardownRuns, onCloseCalls, fpc, sftpClient>>
    /\ UNCHANGED <<wsVars, connVars, fwdVars, libVars>>

\* handleTunnelMessages: a read of the tunnel fails (the socket failed, the
\* tunnel was closed, or its context is done) and the deferred cleanup runs
PumpExit(t) ==
    /\ fwd[t].pump = "running"
    /\ fwd' = [CleanupAll({t}) EXCEPT ![t].pump = "exited"]
    /\ forwardStore' = DeleteCleaned({t})
    /\ UNCHANGED <<sessionStore, sftpStore, sstate, sctx, sclient, hasOnClose,
                   closeOnce, callpc, teardownRuns, onCloseCalls, fpc, sftpClient,
                   ppc>>
    /\ UNCHANGED <<wsVars, connVars, fwdVars, libVars>>

\* portForwardStop(forwardID): cleanup() on the forward if it is registered
portForwardStop(t) ==
    /\ \E e \in forwardStore : e.id = t
    /\ fwd' = CleanupAll({t})
    /\ forwardStore' = DeleteCleaned({t})
    /\ UNCHANGED <<sessionStore, sftpStore, sstate, sctx, sclient, hasOnClose,
                   closeOnce, callpc, teardownRuns, onCloseCalls, fpc, sftpClient,
                   ppc>>
    /\ UNCHANGED <<wsVars, connVars, fwdVars, libVars>>

NextSess ==
    \/ \E s \in Sessions : SessionStored(s)
    \/ \E s \in Sessions : \E c \in CallersOf(s) : CallClose(s, c)
    \/ \E s \in Sessions : KeepaliveStop(s)
    \/ \E s \in Sessions, c \in Callers : TeardownForwards(s, c)
    \/ \E s \in Sessions, c \in Callers : TeardownResources(s, c)
    \/ \E s \in Sessions, c \in Callers : TeardownNotify(s, c)
    \/ \E s \in Sessions, c \in Callers : CloseReturn(s, c)
    \/ \E t \in SftpCalls, s \in Sessions : SftpOpenLoad(t, s)
    \/ \E t \in SftpCalls : SftpNewClientReply(t)
    \/ \E t \in SftpCalls : SftpOpenReturn(t)
    \/ \E t \in SftpCalls : sftpClose(t)
    \/ \E t \in FwdCalls, s \in Sessions : PortForwardLoad(t, s)
    \/ \E t \in FwdCalls : PortForwardDialled(t)
    \/ \E t \in FwdCalls : PortForwardReady(t)
    \/ \E t \in FwdCalls : PumpExit(t)
    \/ \E t \in FwdCalls : portForwardStop(t)

(***************************************************************************)
(* The message pump of one forward: the dispatch of control frames under   *)
(* the semaphore fwd.sem, and the handler tasks it starts.                 *)
(***************************************************************************)
\* portforward.go: maxConcurrentHandlers = 100, the capacity of fwd.sem
maxConcurrentHandlers == 2
\* handler tasks that can exist at once in the model
NumHandlers == 4
\* refusals of each kind the pump answers in one behaviour
MaxRefused == 2

Handlers == 1..NumHandlers

\* the tasks that write to the tunnel: the pump (0) and the handlers
Writers == 0..NumHandlers

\* the types of control frame the pump tells apart
FrameTypes == {"http_request", "tcp_open", "other"}

\* the values of msg.ID and msg.ConnID
Ids == {"a", "b"}

NoFrame == [type |-> "none", id |-> "", status |-> 0]

IdleFwd ==
    /\ pump = "running"
    /\ sem = 0
    /\ hpc = [h \in Handlers |-> "free"]
    /\ sent503 = 0
    /\ sentTcpClose = 0
    /\ hid = [h \in Handlers |-> ""]
    /\ pending = [w \in Writers |-> NoFrame]
    /\ wsMu = {}

\* a dispatch that starts a handler for every frame
AcquireAlways(n) == TRUE

\* select { case fwd.sem <- struct{}{}: ... default: ... }: the send is
\* ready while the channel holds fewer than its capacity
TryAcquire(n) == n < maxConcurrentHandlers

\* the handler tasks that are running
Running == {h \in Handlers : hpc[h] # "free"}

\* a refusal that loses the identifier of the refused frame
RefusalFrameNoId(type, id) ==
    IF type = "http_request"
    THEN [type |-> "http_response", id |-> "", status |-> 503]
    ELSE [type |-> "tcp_close", id |-> "", status |-> 0]

\* the default arms of the two selects: sendHTTPResponse(reqID, 503, ...)
\* and sendTCPClose(connID)
RefusalFrame(type, id) ==
    IF type = "http_request"
    THEN [type |-> "http_response", id |-> id, status |-> 503]
    ELSE [type |-> "tcp_close", id |-> id, status |-> 0]

\* one round of the pump's loop for a JSON control frame carrying id; a
\* refused frame is answered by the pump itself, so the pump goes on to
\* write the answer
Dispatch(type, id) ==
    /\ pump = "running"
    /\ pending[0] = NoFrame
    /\ IF type = "other"
       THEN UNCHANGED <<sem, hpc, hid, pending>>
       ELSE IF TryAcquire(sem)
       THEN /\ \E h \in Handlers :
               /\ hpc[h] = "free"
               /\ \A g \in Handlers : g < h => hpc[g] # "free"
               /\ hpc' = [hpc EXCEPT ![h] = type]
               /\ hid' = [hid EXCEPT ![h] = id]
            /\ sem' = sem + 1
            /\ UNCHANGED pending
       ELSE /\ IF type = "http_request"
               THEN sent503 < MaxRefused
               ELSE sentTcpClose < MaxRefused
            /\ pending' = [pending EXCEPT ![0] = RefusalFrame(type, id)]
            /\ UNCHANGED <<sem, hpc, hid>>
    /\ UNCHANGED <<pump, sent503, sentTcpClose, wsMu>>
    /\ UNCHANGED <<wsVars, connVars, sessVars, libVars>>

\* a lock that admits a task while another holds it
LockAdmitsAll(holders) == TRUE

\* fwd.wsMu.Lock() returns when no task holds the lock
LockAdmits(holders) == holders = {}

\* the SSH -> Proxy subtask of a TCP handler has read a batch and wraps it
\* as a binary frame for the tunnel
TcpData(h) ==
    /\ hpc[h] = "tcp_open"
    /\ pending[h] = NoFrame
    /\ pending' = [pending EXCEPT ![h] = [type |-> "binary", id |-> hid[h], status |-> 0]]
    /\ UNCHANGED <<pump, sem, hpc, sent503, sentTcpClose, hid, wsMu>>
    /\ UNCHANGED <<wsVars, connVars, sessVars, libVars>>

\* a handler comes to its last statement: handleHTTPRequest answers with the
\* response (or 502), handleTCPOpen with tcp_close
HandlerReply(h) ==
    /\ hpc[h] \in {"http_request", "tcp_open"}
    /\ pending[h] = NoFrame
    /\ \E status \in {200, 502} :
          pending' = [pending EXCEPT ![h] =
                        IF hpc[h] = "http_request"
                        THEN [type |-> "http_response", id |-> hid[h], status |-> status]
                        ELSE [type |-> "tcp_close", id |-> hid[h], status |-> 0]]
    /\ hpc' = [hpc EXCEPT ![h] = "replying"]
    /\ UNCHANGED <<pump, sem, sent503, sentTcpClose, hid, wsMu>>
    /\ UNCHANGED <<wsVars, connVars, sessVars, libVars>>

\* fwd.wsMu.Lock() followed by the start of fwd.tunnelConn.Write(frame)
TunnelLock(w) ==
    /\ pending[w] # NoFrame
    /\ w \notin wsMu
    /\ LockAdmits(wsMu)
    /\ wsMu' = wsMu \cup {w}
    /\ UNCHANGED <<pump, sem, hpc, sent503, sentTcpClose, hid, pending>>
    /\ UNCHANGED <<wsVars, connVars, sessVars, libVars>>

\* the end of fwd.tunnelConn.Write(frame) and fwd.wsMu.Unlock(), for the
\* pump and for the binary frames of a TCP handler
TunnelWriteEnd(w) ==
    /\ w \in wsMu
    /\ IF w = 0 THEN TRUE ELSE hpc[w] # "replying"
    /\ wsMu' = wsMu \ {w}
    /\ pending' = [pending EXCEPT ![w] = NoFrame]
    /\ sent503' = IF w = 0 /\ pending[w].status = 503 THEN sent503 + 1 ELSE sent503
    /\ sentTcpClose' = IF w = 0 /\ pending[w].type = "tcp_close"
                       THEN sentTcpClose + 1 ELSE sentTcpClose
    /\ UNCHANGED <<pump, sem, hpc, hid>>
    /\ UNCHANGED <<wsVars, connVars, sessVars, libVars>>

\* a handler has written its last frame and returns; its deferred <-fwd.sem
\* gives the slot back
HandlerExit(h) ==
    /\ hpc[h] = "replying"
    /\ h \in wsMu
    /\ wsMu' = wsMu \ {h}
    /\ pending' = [pending EXCEPT ![h] = NoFrame]
    /\ hpc' = [hpc EXCEPT ![h] = "free"]
    /\ hid' = [hid EXCEPT ![h] = ""]
    /\ sem' = sem - 1
    /\ UNCHANGED <<pump, sent503, sentTcpClose>>
    /\ UNCHANGED <<wsVars, connVars, sessVars, libVars>>

\* a read of the tunnel fails: the pump returns and its deferred cleanup
\* closes the tunnel; the handlers run on
PumpStops ==
    /\ pump = "running"
    /\ pending[0] = NoFrame
    /\ pump' = "exited"
    /\ UNCHANGED <<sem, hpc, sent503, sentTcpClose, hid, pending, wsMu>>
    /\ UNCHANGED <<wsVars, connVars, sessVars, libVars>>

NextFwd ==
    \/ \E type \in FrameTypes : \E id \in Ids : Dispatch(type, id)
    \/ \E h \in Handlers : TcpData(h)
    \/ \E h \in Handlers : HandlerReply(h)
    \/ \E w \in Writers : TunnelLock(w)
    \/ \E w \in Writers : TunnelWriteEnd(w)
    \/ \E h \in Handlers : HandlerExit(h)
    \/ PumpStops

(***************************************************************************)
(* The TCP connections of one forward: the handlers started for tcp_open,  *)
(* the map fwd.tcpChans, the per-connection queues that the pump feeds     *)
(* from binary frames, and cleanup.                                        *)
(***************************************************************************)
\* portforward.go: inCh := make(chan []byte, 256)
tcpChanSize == 1
\* binary frames that arrive in one behaviour
MaxFrames == 2

\* the TCP handler tasks that can exist at once in the model
TcpHandlers == {1, 2}

NoPayload == [conn |-> "", n |-> 0]

\* portForwardStart has stored the forward and started its pump
IdleTcp ==
    /\ tcpChans = [c \in Ids |-> 0]
    /\ tpc = [h \in TcpHandlers |-> "free"]
    /\ tconn = [h \in TcpHandlers |-> ""]
    /\ inCh = [h \in TcpHandlers |-> <<>>]
    /\ cons = [h \in TcpHandlers |-> "none"]
    /\ cdata = [h \in TcpHandlers |-> NoPayload]
    /\ rdr = [h \in TcpHandlers |-> "none"]
    /\ chanSt = [h \in TcpHandlers |-> "none"]
    /\ tpump = "reading"
    /\ tpend = [h |-> 0, data |-> NoPayload]
    /\ tctx = FALSE
    /\ tunnelSt = "open"
    /\ tstored = TRUE
    /\ cleanupOnce = "fresh"
    /\ cleanupRuns = 0
    /\ cleanedBy = "none"
    /\ nextSeq = 1
    /\ sshOut = [h \in TcpHandlers |-> NoPayload]

\* a latch that lets every caller run the body
CleanupAlwaysRuns(once) == TRUE

\* fwd.cleanupOnce.Do
CleanupOnceAdmits(once) == once = "fresh"

\* portForward.cleanup: cancel, tunnelConn.Close, forwardStore.Delete, once
cleanup(who) ==
    IF CleanupOnceAdmits(cleanupOnce)
    THEN /\ cleanupOnce' = "done"
         /\ tctx' = TRUE
         /\ tunnelSt' = "closed"
         /\ tstored' = FALSE
         /\ cleanupRuns' = cleanupRuns + 1
         /\ cleanedBy' = who
    ELSE UNCHANGED <<cleanupOnce, tctx, tunnelSt, tstored, cleanupRuns, cleanedBy>>

\* session.close cancels sess.ctx, the parent of fwd.ctx, and reaches the
\* forwards only after it has closed the session's SFTP clients
SessionCancel ==
    /\ tstored
    /\ ~tctx
    /\ tctx' = TRUE
    /\ UNCHANGED <<tcpChans, tpc, tconn, inCh, cons, cdata, rdr, chanSt, tpump, tpend,
                   tunnelSt, tstored, cleanupOnce, cleanupRuns, cleanedBy, nextSeq,
                   sshOut>>
    /\ UNCHANGED <<coreVars, xVars, yVars, zVars>>

\* portForwardStop ("stop") and the Range of session.close ("session"): both
\* find the forward in forwardStore and call cleanup
CleanupCall(who) ==
    /\ tstored
    /\ who = "session" => tctx
    /\ cleanup(who)
    /\ UNCHANGED <<tcpChans, tpc, tconn, inCh, cons, cdata, rdr, chanSt, tpump, tpend,
                   nextSeq, sshOut>>
    /\ UNCHANGED <<coreVars, xVars, yVars, zVars>>

\* the pump returns: its Read failed, or fwd.ctx was done while it waited to
\* enqueue a payload; its deferred cleanup runs
PumpReturn ==
    /\ \/ tpump = "reading"
       \/ tpump = "blocked" /\ tctx
    /\ tpump' = "exited"
    /\ tpend' = [h |-> 0, data |-> NoPayload]
    /\ cleanup("pump")
    /\ UNCHANGED <<tcpChans, tpc, tconn, inCh, cons, cdata, rdr, chanSt, nextSeq,
                   sshOut>>
    /\ UNCHANGED <<coreVars, xVars, yVars, zVars>>

\* the pump reads tcp_open for connID c and a permit is free: handleTCPOpen
\* starts and dials
TcpOpen(c) ==
    /\ tpump = "reading"
    /\ tunnelSt = "open"
    /\ \E h \in TcpHandlers :
          /\ tpc[h] = "free"
          /\ \A g \in TcpHandlers : g < h => tpc[g] # "free"
          /\ tpc' = [tpc EXCEPT ![h] = "dial"]
          /\ tconn' = [tconn EXCEPT ![h] = c]
    /\ UNCHANGED <<tcpChans, inCh, cons, cdata, rdr, chanSt, tpump, tpend, tctx,
                   tunnelSt, tstored, cleanupOnce, cleanupRuns, cleanedBy, nextSeq,
                   sshOut>>
    /\ UNCHANGED <<coreVars, xVars, yVars, zVars>>

\* sshDialWithTimeout returns.  With a channel the handler stores its inCh
\* under its connID, whatever is stored there, and starts its two subtasks;
\* without one it sends tcp_close and returns.
TcpDialled(h) ==
    /\ tpc[h] = "dial"
    /\ \E ok \in BOOLEAN :
          IF ok
          THEN /\ tcpChans' = [tcpChans EXCEPT ![tconn[h]] = h]
               /\ tpc' = [tpc EXCEPT ![h] = "open"]
               /\ chanSt' = [chanSt EXCEPT ![h] = "open"]
               /\ cons' = [cons EXCEPT ![h] = "idle"]
               /\ rdr' = [rdr EXCEPT ![h] = "running"]
               /\ UNCHANGED tconn
          ELSE /\ tpc' = [tpc EXCEPT ![h] = "free"]
               /\ tconn' = [tconn EXCEPT ![h] = ""]
               /\ UNCHANGED <<tcpChans, chanSt, cons, rdr>>
    /\ UNCHANGED <<inCh, cdata, tpump, tpend, tctx, tunnelSt, tstored, cleanupOnce,
                   cleanupRuns, cleanedBy, nextSeq, sshOut>>
    /\ UNCHANGED <<coreVars, xVars, yVars, zVars>>

\* the pump reads a binary frame for connID c: without an entry the frame is
\* discarded; with one, select { case ch <- pCopy: case <-fwd.ctx.Done(): }
\* sends at once if there is room and waits otherwise
BinaryFrame(c) ==
    /\ tpump = "reading"
    /\ tunnelSt = "open"
    /\ nextSeq <= MaxFrames
    /\ nextSeq' = nextSeq + 1
    /\ LET h == tcpChans[c]
           data == [conn |-> c, n |-> nextSeq]
       IN  IF h = 0
           THEN UNCHANGED <<inCh, tpump, tpend>>
           ELSE \/ /\ Len(inCh[h]) < tcpChanSize
                   /\ inCh' = [inCh EXCEPT ![h] = Append(@, data)]
                   /\ UNCHANGED <<tpump, tpend>>
                \/ /\ Len(inCh[h]) >= tcpChanSize \/ tctx
                   /\ tpump' = "blocked"
                   /\ tpend' = [h |-> h, data |-> data]
                   /\ UNCHANGED inCh
    /\ UNCHANGED <<tcpChans, tpc, tconn, cons, cdata, rdr, chanSt, tctx, tunnelSt,
                   tstored, cleanupOnce, cleanupRuns, cleanedBy, sshOut>>
    /\ UNCHANGED <<coreVars, xVars, yVars, zVars>>

\* the blocked send completes once the queue has room; the queue of a
\* handler that has returned is never drained again
PumpSend ==
    /\ tpump = "blocked"
    /\ tpc[tpend.h] = "open"
    /\ Len(inCh[tpend.h]) < tcpChanSize
    /\ inCh' = [inCh EXCEPT ![tpend.h] = Append(@, tpend.data)]
    /\ tpump' = "reading"
    /\ tpend' = [h |-> 0, data |-> NoPayload]
    /\ UNCHANGED <<tcpChans, tpc, tconn, cons, cdata, rdr, chanSt, tctx, tunnelSt,
                   tstored, cleanupOnce, cleanupRuns, cleanedBy, nextSeq, sshOut>>
    /\ UNCHANGED <<coreVars, xVars, yVars, zVars>>

\* a receive that leaves the payload on the queue
DequeuedKept(q) == [data |-> Head(q), rest |-> q]

\* data, ok := <-inCh
Dequeued(q) == [data |-> Head(q), rest |-> Tail(q)]

\* the Proxy -> SSH subtask receives a payload and calls channel.Write
ConsumerTake(h) ==
    /\ cons[h] = "idle"
    /\ inCh[h] # <<>>
    /\ cdata' = [cdata EXCEPT ![h] = Dequeued(inCh[h]).data]
    /\ inCh' = [inCh EXCEPT ![h] = Dequeued(inCh[h]).rest]
    /\ cons' = [cons EXCEPT ![h] = "writing"]
    /\ UNCHANGED <<tcpChans, tpc, tconn, rdr, chanSt, tpump, tpend, tctx, tunnelSt,
                   tstored, cleanupOnce, cleanupRuns, cleanedBy, nextSeq, sshOut>>
    /\ UNCHANGED <<coreVars, xVars, yVars, zVars>>

\* channel.Write returns: an error on a closed channel ends the subtask
ConsumerWritten(h) ==
    /\ cons[h] = "writing"
    /\ IF chanSt[h] = "closed"
       THEN /\ cons' = [cons EXCEPT ![h] = "done"]
            /\ UNCHANGED sshOut
       ELSE /\ cons' = [cons EXCEPT ![h] = "idle"]
            /\ sshOut' = [sshOut EXCEPT ![h] = cdata[h]]
    /\ cdata' = [cdata EXCEPT ![h] = NoPayload]
    /\ UNCHANGED <<tcpChans, tpc, tconn, inCh, rdr, chanSt, tpump, tpend, tctx,
                   tunnelSt, tstored, cleanupOnce, cleanupRuns, cleanedBy, nextSeq>>
    /\ UNCHANGED <<coreVars, xVars, yVars, zVars>>

\* the Proxy -> SSH subtask takes case <-fwd.ctx.Done()
ConsumerCancelled(h) ==
    /\ cons[h] = "idle"
    /\ tctx
    /\ cons' = [cons EXCEPT ![h] = "done"]
    /\ UNCHANGED <<tcpChans, tpc, tconn, inCh, cdata, rdr, chanSt, tpump, tpend, tctx,
                   tunnelSt, tstored, cleanupOnce, cleanupRuns, cleanedBy, nextSeq,
                   sshOut>>
    /\ UNCHANGED <<coreVars, xVars, yVars, zVars>>

\* the SSH -> Proxy subtask ends: channel.Read returned EOF or an error, or
\* the write of a frame to the closed tunnel failed
ReaderEnd(h) ==
    /\ rdr[h] = "running"
    /\ chanSt[h] \in {"eof", "closed"} \/ tunnelSt = "closed"
    /\ rdr' = [rdr EXCEPT ![h] = "done"]
    /\ UNCHANGED <<tcpChans, tpc, tconn, inCh, cons, cdata, chanSt, tpump, tpend, tctx,
                   tunnelSt, tstored, cleanupOnce, cleanupRuns, cleanedBy, nextSeq,
                   sshOut>>
    /\ UNCHANGED <<coreVars, xVars, yVars, zVars>>

\* the remote service ends the connection: EOF, or the channel is closed
SshChannelEnds(h) ==
    /\ \E st \in {"eof", "closed"} :
          /\ chanSt[h] = "open" \/ (chanSt[h] = "eof" /\ st = "closed")
          /\ chanSt' = [chanSt EXCEPT ![h] = st]
    /\ UNCHANGED <<tcpChans, tpc, tconn, inCh, cons, cdata, rdr, tpump, tpend, tctx,
                   tunnelSt, tstored, cleanupOnce, cleanupRuns, cleanedBy, nextSeq,
                   sshOut>>
    /\ UNCHANGED <<coreVars, xVars, yVars, zVars>>

\* the handler, waiting for its subtasks, takes case <-fwd.ctx.Done() and
\* closes the SSH channel
HandlerCancelled(h) ==
    /\ tpc[h] = "open"
    /\ tctx
    /\ ~(cons[h] = "done" /\ rdr[h] = "done")
    /\ chanSt[h] # "closed"
    /\ chanSt' = [chanSt EXCEPT ![h] = "closed"]
    /\ UNCHANGED <<tcpChans, tpc, tconn, inCh, cons, cdata, rdr, tpump, tpend, tctx,
                   tunnelSt, tstored, cleanupOnce, cleanupRuns, cleanedBy, nextSeq,
                   sshOut>>
    /\ UNCHANGED <<coreVars, xVars, yVars, zVars>>

\* both subtasks are done: the handler sends tcp_close and returns; its
\* deferred calls delete the entry of its connID and close the channel
TcpHandlerReturn(h) ==
    /\ tpc[h] = "open"
    /\ cons[h] = "done"
    /\ rdr[h] = "done"
    /\ tcpChans' = [tcpChans EXCEPT ![tconn[h]] = 0]
    /\ tpc' = [tpc EXCEPT ![h] = "free"]
    /\ tconn' = [tconn EXCEPT ![h] = ""]
    /\ inCh' = [inCh EXCEPT ![h] = <<>>]
    /\ cons' = [cons EXCEPT ![h] = "none"]
    /\ rdr' = [rdr EXCEPT ![h] = "none"]
    /\ chanSt' = [chanSt EXCEPT ![h] = "none"]
    /\ sshOut' = [sshOut EXCEPT ![h] = NoPayload]
    /\ UNCHANGED <<cdata, tpump, tpend, tctx, tunnelSt, tstored, cleanupOnce,
                   cleanupRuns, cleanedBy, nextSeq>>
    /\ UNCHANGED <<coreVars, xVars, yVars, zVars>>

NextTcp ==
    \/ SessionCancel
    \/ \E who \in {"stop", "session"} : CleanupCall(who)
    \/ PumpReturn
    \/ \E c \in Ids : TcpOpen(c)
    \/ \E h \in TcpHandlers : TcpDialled(h)
    \/ \E c \in Ids : BinaryFrame(c)
    \/ PumpSend
    \/ \E h \in TcpHandlers : ConsumerTake(h)
    \/ \E h \in TcpHandlers : ConsumerWritten(h)
    \/ \E h \in TcpHandlers : ConsumerCancelled(h)
    \/ \E h \in TcpHandlers : ReaderEnd(h)
    \/ \E h \in TcpHandlers : SshChannelEnds(h)
    \/ \E h \in TcpHandlers : HandlerCancelled(h)
    \/ \E h \in TcpHandlers : TcpHandlerReturn(h)

(***************************************************************************)
(* handleHTTPRequest (portforward.go): the request a forward writes to the *)
(* SSH channel.  A header name or value is a sequence of characters, each  *)
(* a one-character string; CR and LF stand for the two line-break bytes.   *)
(***************************************************************************)
\* the most headers an inbound frame carries
MaxHeaders == 2

CR == "CR"
LF == "LF"

Upper == <<"C", "E", "H", "O", "S", "T", "X">>
Lower == <<"c", "e", "h", "o", "s", "t", "x">>

\* the lower-case form of one character, as the byte-wise fold computes it
FoldChar(ch) ==
    IF \E i \in 1..Len(Upper) : Upper[i] = ch
    THEN Lower[CHOOSE i \in 1..Len(Upper) : Upper[i] = ch]
    ELSE ch

FoldName(s) == [i \in 1..Len(s) |-> FoldChar(s[i])]

\* the names the switch of the header loop lists, spelled as it spells them
HopByHop ==
    { <<"H", "o", "s", "t">>,
      <<"C", "o", "n", "n", "e", "c", "t", "i", "o", "n">>,
      <<"U", "p", "g", "r", "a", "d", "e">>,
      <<"K", "e", "e", "p", "-", "A", "l", "i", "v", "e">>,
      <<"T", "r", "a", "n", "s", "f", "e", "r", "-", "E", "n", "c", "o", "d", "i", "n", "g">>,
      <<"T", "E">>,
      <<"T", "r", "a", "i", "l", "e", "r">>,
      <<"P", "r", "o", "x", "y", "-", "A", "u", "t", "h", "o", "r", "i", "z", "a", "t", "i", "o", "n">>,
      <<"P", "r", "o", "x", "y", "-", "C", "o", "n", "n", "e", "c", "t", "i", "o", "n">> }

\* the header names and values the relay's frames carry in the model
HeaderNames ==
    { <<"H", "o", "s", "t">>, <<"h", "o", "s", "t">>, <<"H", "O", "S", "T">>,
      <<"T", "E">>, <<"t", "e">>,
      <<"X">>, <<"X", CR, LF, "x">>, <<"x", LF>> }

HeaderValues == { <<"v">>, <<"v", CR, LF, "x">>, <<LF>> }

\* fmt.Sprintf("%s:%d", fwd.remoteHost, fwd.remotePort)
RemoteAddr == <<"r", ":", "8">>

HostName == <<"H", "o", "s", "t">>
ConnectionName == <<"C", "o", "n", "n", "e", "c", "t", "i", "o", "n">>

IdleHttp ==
    /\ rqpc = "idle"
    /\ headers = <<>>
    /\ rqLeft = {}
    /\ httpReq = <<>>
    /\ chanReq = <<>>

containsCRLF(s) == \E i \in 1..Len(s) : s[i] = CR \/ s[i] = LF

\* the switch of the header loop: a string comparison with the listed names
SkippedName(k) == k \in HopByHop

\* an http_request frame arrives and its handler has dialled: the request
\* line and the Host line of the configured address are formatted
HttpRequest(hs) ==
    /\ rqpc = "idle"
    /\ rqpc' = "building"
    /\ headers' = hs
    /\ rqLeft' = DOMAIN hs
    /\ httpReq' = << [name |-> HostName, value |-> RemoteAddr, inbound |-> FALSE] >>
    /\ chanReq' = <<>>
    /\ UNCHANGED <<notHttp>>

\* one iteration of the range over the headers map, which visits the keys
\* in no fixed order
HeaderStep(k) ==
    /\ rqpc = "building"
    /\ k \in rqLeft
    /\ rqLeft' = rqLeft \ {k}
    /\ IF SkippedName(k) \/ containsCRLF(k) \/ containsCRLF(headers[k])
       THEN httpReq' = httpReq
       ELSE httpReq' = Append(httpReq, [name |-> k, value |-> headers[k], inbound |-> TRUE])
    /\ UNCHANGED <<rqpc, headers, chanReq, notHttp>>

\* the loop is over: "Connection: close" is added and the request is written
HttpWrite ==
    /\ rqpc = "building"
    /\ rqLeft = {}
    /\ rqpc' = "written"
    /\ chanReq' = Append(httpReq, [name |-> ConnectionName, value |-> <<"c", "l", "o", "s", "e">>, inbound |-> FALSE])
    /\ UNCHANGED <<headers, rqLeft, httpReq, notHttp>>

\* the handler returns
HttpReturn ==
    /\ rqpc = "written"
    /\ rqpc' = "idle"
    /\ headers' = <<>>
    /\ rqLeft' = {}
    /\ httpReq' = <<>>
    /\ chanReq' = <<>>
    /\ UNCHANGED <<notHttp>>

\* the header maps of the frames: at most MaxHeaders names, each with a value
HeaderMaps ==
    UNION { [ks -> HeaderValues] :
            ks \in { x \in SUBSET HeaderNames : Cardinality(x) <= MaxHeaders } }

NextHttp ==
    \/ \E hs \in HeaderMaps : HttpRequest(hs)
    \/ \E k \in HeaderNames : HeaderStep(k)
    \/ HttpWrite
    \/ HttpReturn

(***************************************************************************)
(* Streaming upload (sftp_transfer.go): write calls push chunks into the   *)
(* buffered channel dataCh, one writer task drains it into the remote      *)
(* file, end closes the channel and waits for the writer.                  *)
(***************************************************************************)
\* the capacity of dataCh (16 in the source, scaled down)
uploadChanSize == 2

\* the write calls of the caller: one more than the queue holds
UpCalls == 1..(uploadChanSize + 1)

\* the chunk sizes of the model
ChunkSizes == {1, 2}

IdleUp ==
    /\ upStored = FALSE
    /\ dataCh = <<>>
    /\ dataClosed = FALSE
    /\ doneCh = FALSE
    /\ written = 0
    /\ writeErr = FALSE
    /\ wrpc = "none"
    /\ wchunk = 0
    /\ upc = [w \in UpCalls |-> "idle"]
    /\ usize = [w \in UpCalls |-> 0]
    /\ epc = "idle"
    /\ panicked = FALSE
    /\ accepted = 0
    /\ waited = {}

\* sftpUploadStreamStart: the remote file is created, the state is stored
\* and the writer task is started
UploadStart ==
    /\ wrpc = "none"
    /\ upStored' = TRUE
    /\ wrpc' = "ranging"
    /\ UNCHANGED <<dataCh, dataClosed, doneCh, written, writeErr, wchunk, upc, usize,
                   epc, panicked, accepted, waited, notUp>>

\* sftpUploadStreamWrite up to the send: the state is looked up, the sticky
\* error is checked and the chunk is copied
WriteCall(w) ==
    /\ ~panicked
    /\ wrpc # "none"
    /\ upc[w] = "idle"
    /\ \E n \in ChunkSizes :
          /\ usize' = [usize EXCEPT ![w] = n]
          /\ IF ~upStored \/ writeErr
             THEN /\ upc' = [upc EXCEPT ![w] =
                                IF ~upStored THEN "notfound" ELSE "rejected"]
                  /\ waited' = waited
             ELSE /\ upc' = [upc EXCEPT ![w] = "sending"]
                  /\ waited' = IF Len(dataCh) = uploadChanSize /\ wrpc # "done"
                               THEN waited \cup {w} ELSE waited
    /\ UNCHANGED <<upStored, dataCh, dataClosed, doneCh, written, writeErr, wrpc,
                   wchunk, epc, panicked, accepted, notUp>>

HasRoomAlways(q) == TRUE

\* a send on the buffered channel goes through while the buffer has room
HasRoom(q) == Len(q) < uploadChanSize

\* state.dataCh <- data: a send on the closed channel panics
WriteSend(w) ==
    /\ ~panicked
    /\ upc[w] = "sending"
    /\ IF dataClosed
       THEN /\ panicked' = TRUE
            /\ UNCHANGED <<dataCh, upc, accepted>>
       ELSE /\ HasRoom(dataCh)
            /\ dataCh' = Append(dataCh, usize[w])
            /\ upc' = [upc EXCEPT ![w] = "sent"]
            /\ accepted' = accepted + usize[w]
            /\ panicked' = panicked
    /\ UNCHANGED <<upStored, dataClosed, doneCh, written, writeErr, wrpc, wchunk,
                   usize, epc, waited, notUp>>

\* the re-check of the sticky error after the send
WriteReturn(w) ==
    /\ ~panicked
    /\ upc[w] = "sent"
    /\ upc' = [upc EXCEPT ![w] = IF writeErr THEN "rejected" ELSE "resolved"]
    /\ UNCHANGED <<upStored, dataCh, dataClosed, doneCh, written, writeErr, wrpc,
                   wchunk, usize, epc, panicked, accepted, waited, notUp>>

\* the writer task: for chunk := range state.dataCh
WriterTake ==
    /\ ~panicked
    /\ wrpc = "ranging"
    /\ IF dataCh # <<>>
       THEN /\ wchunk' = Head(dataCh)
            /\ dataCh' = Tail(dataCh)
            /\ wrpc' = "writing"
            /\ doneCh' = doneCh
       ELSE /\ dataClosed
            /\ wrpc' = "done"
            /\ doneCh' = TRUE
            /\ UNCHANGED <<wchunk, dataCh>>
    /\ UNCHANGED <<upStored, dataClosed, written, writeErr, upc, usize, epc,
                   panicked, accepted, waited, notUp>>

writerKeepsWriting == "ranging"

\* the writer task after setErr: it only drains the channel and returns
writerAfterError == "draining"

\* the writer task: f.Write(chunk) returns; a failed write is recorded by
\* setErr and its byte count is not added to written
WriterWrite ==
    /\ ~panicked
    /\ wrpc = "writing"
    /\ \E ok \in BOOLEAN :
          IF ok
          THEN /\ written' = written + wchunk
               /\ wrpc' = "ranging"
               /\ writeErr' = writeErr
          ELSE /\ writeErr' = TRUE
               /\ wrpc' = writerAfterError
               /\ written' = written
    /\ wchunk' = 0
    /\ UNCHANGED <<upStored, dataCh, dataClosed, doneCh, upc, usize, epc,
                   panicked, accepted, waited, notUp>>

\* the writer task after a failed write: for range state.dataCh {}
WriterDrain ==
    /\ ~panicked
    /\ wrpc = "draining"
    /\ IF dataCh # <<>>
       THEN /\ dataCh' = Tail(dataCh)
            /\ UNCHANGED <<wrpc, doneCh>>
       ELSE /\ dataClosed
            /\ wrpc' = "done"
            /\ doneCh' = TRUE
            /\ dataCh' = dataCh
    /\ UNCHANGED <<upStored, dataClosed, written, writeErr, wchunk, upc, usize, epc,
                   panicked, accepted, waited, notUp>>

\* sftpUploadStreamEnd up to the wait: LoadAndDelete, close(state.dataCh)
UploadEnd ==
    /\ ~panicked
    /\ wrpc # "none"
    /\ epc = "idle"
    /\ IF upStored
       THEN /\ upStored' = FALSE
            /\ dataClosed' = TRUE
            /\ epc' = "waiting"
       ELSE /\ epc' = "notfound"
            /\ UNCHANGED <<upStored, dataClosed>>
    /\ UNCHANGED <<dataCh, doneCh, written, writeErr, wrpc, wchunk, upc, usize,
                   panicked, accepted, waited, notUp>>

\* sftpUploadStreamEnd after the wait
EndReturn ==
    /\ ~panicked
    /\ epc = "waiting"
    /\ doneCh
    /\ epc' = IF writeErr THEN "rejected" ELSE "resolved"
    /\ UNCHANGED <<upStored, dataCh, dataClosed, doneCh, written, writeErr, wrpc,
                   wchunk, upc, usize, panicked, accepted, waited, notUp>>

\* sftpUploadStreamCancel
UploadCancel ==
    /\ ~panicked
    /\ upStored
    /\ upStored' = FALSE
    /\ dataClosed' = TRUE
    /\ UNCHANGED <<dataCh, doneCh, written, writeErr, wrpc, wchunk, upc, usize, epc,
                   panicked, accepted, waited, notUp>>

NextUp ==
    \/ UploadStart
    \/ \E w \in UpCalls : WriteCall(w)
    \/ \E w \in UpCalls : WriteSend(w)
    \/ \E w \in UpCalls : WriteReturn(w)
    \/ WriterTake
    \/ WriterWrite
    \/ WriterDrain
    \/ UploadEnd
    \/ EndReturn
    \/ UploadCancel

(***************************************************************************)
(* Streaming download (sftp_transfer.go): sftpDownloadStream registers the *)
(* stream and waits for done or the timeout; the host's bridge calls       *)
(* streamPull and streamCancel with the stream id and a token.             *)
(***************************************************************************)
\* the chunks of the longest remote file
MaxChunks == 2

\* the calls of streamCancel the host makes
MaxCancels == 2

\* closeDone calls are counted up to this number
MaxDoneCalls == 3

\* the token a caller presents: the one handed out with the stream id, or
\* another one
Tokens == {"match", "other"}

NoPull == [data |-> "none", done |-> FALSE]

IdleDl ==
    /\ dlStored = FALSE
    /\ fileSt = "none"
    /\ remaining = 0
    /\ doneSig = FALSE
    /\ dlOnce = "fresh"
    /\ dpc = "none"
    /\ lastPull = NoPull
    /\ cancels = 0
    /\ doneCalls = 0
    /\ doneRaises = 0

DoneOnceAlways(once) == TRUE

\* s.doneOnce.Do runs its function for the first caller only
DoneOnceAdmits(once) == once = "fresh"

\* streamState.closeDone, as a relation between the state before and after
closeDone ==
    /\ doneCalls' = IF doneCalls < MaxDoneCalls THEN doneCalls + 1 ELSE doneCalls
    /\ IF DoneOnceAdmits(dlOnce)
       THEN /\ dlOnce' = "done"
            /\ doneSig' = TRUE
            /\ doneRaises' = doneRaises + 1
       ELSE UNCHANGED <<dlOnce, doneSig, doneRaises>>

\* sftpDownloadStream up to the wait: stat, open, Store, the event
DownloadStream ==
    /\ dpc = "none"
    /\ dpc' = "waiting"
    /\ dlStored' = TRUE
    /\ fileSt' = "open"
    /\ \E n \in 0..MaxChunks : remaining' = n
    /\ UNCHANGED <<doneSig, dlOnce, lastPull, cancels, doneCalls, doneRaises, notDl>>

\* sftpDownloadStream: case <-state.done
DownloadDone ==
    /\ dpc = "waiting"
    /\ doneSig
    /\ dpc' = "resolved"
    /\ dlStored' = FALSE
    /\ UNCHANGED <<fileSt, remaining, doneSig, dlOnce, lastPull, cancels, doneCalls,
                   doneRaises, notDl>>

\* sftpDownloadStream: case <-timeout.C
DownloadTimeout ==
    /\ dpc = "waiting"
    /\ dpc' = "rejected"
    /\ fileSt' = "closed"
    /\ closeDone
    /\ dlStored' = FALSE
    /\ UNCHANGED <<remaining, lastPull, cancels, notDl>>

\* streamPull(streamID): the token the caller presents is not looked at
streamPull(token) ==
    /\ dpc # "none"
    /\ IF ~dlStored
       THEN /\ lastPull' = [data |-> "null", done |-> TRUE]
            /\ UNCHANGED <<fileSt, remaining, doneSig, dlOnce, doneCalls, doneRaises>>
       ELSE \E n \in {0, 1}, failed \in BOOLEAN :
               \* state.file.Read: no bytes without an error does not happen, a
               \* closed or exhausted reader returns no bytes
               /\ n = 1 => (fileSt = "open" /\ remaining > 0)
               /\ n = 0 => failed
               /\ remaining' = remaining - n
               /\ lastPull' = [data |-> IF n > 0 THEN "chunk" ELSE "null", done |-> failed]
               /\ IF failed
                  THEN /\ fileSt' = "closed"
                       /\ closeDone
                  ELSE UNCHANGED <<fileSt, doneSig, dlOnce, doneCalls, doneRaises>>
    /\ UNCHANGED <<dlStored, dpc, cancels, notDl>>

\* streamCancel(streamID): the token the caller presents is not looked at
streamCancel(token) ==
    /\ dpc # "none"
    /\ cancels < MaxCancels
    /\ cancels' = cancels + 1
    /\ IF dlStored
       THEN /\ dlStored' = FALSE
            /\ fileSt' = "closed"
            /\ closeDone
       ELSE UNCHANGED <<dlStored, fileSt, doneSig, dlOnce, doneCalls, doneRaises>>
    /\ UNCHANGED <<remaining, dpc, lastPull, notDl>>

NextDl ==
    \/ DownloadStream
    \/ DownloadDone
    \/ DownloadTimeout
    \/ \E token \in Tokens : streamPull(token)
    \/ \E token \in Tokens : streamCancel(token)

(***************************************************************************)
(* sftpUpload and sftpDownload (sftp_transfer.go): the transfers that hold *)
(* the whole payload in core memory.  Sizes are counted in chunks.         *)
(***************************************************************************)
\* maxDownloadSize (512 MiB in the source, scaled down)
maxDownloadSize == 3

\* the sizes of the payloads and remote files: up to two over the ceiling
TransferSizes == 0..(maxDownloadSize + 2)

IdleXfer ==
    /\ xop = "none"
    /\ xpc = "idle"
    /\ xsize = 0
    /\ xcopied = 0
    /\ xcreated = FALSE
    /\ xopened = FALSE
    /\ xmoved = 0
    /\ xerr = "none"

\* sftpUpload is called with a payload of n chunks: getSFTPClient
sftpUpload(n) ==
    /\ xpc = "idle"
    /\ xop' = "upload"
    /\ xsize' = n
    /\ \E ok \in BOOLEAN :
          IF ok THEN xpc' = "entered" /\ xerr' = xerr
          ELSE xpc' = "rejected" /\ xerr' = "notFound"
    /\ UNCHANGED <<xcopied, xcreated, xopened, xmoved, notXfer>>

\* sftpUpload: make([]byte, totalSize), js.CopyBytesToGo(src, data)
UploadCopy ==
    /\ xop = "upload"
    /\ xpc = "entered"
    /\ xcopied' = xsize
    /\ xpc' = "copied"
    /\ UNCHANGED <<xop, xsize, xcreated, xopened, xmoved, xerr, notXfer>>

\* sftpUpload: client.Create(remotePath)
UploadCreate ==
    /\ xop = "upload"
    /\ xpc = "copied"
    /\ \E ok \in BOOLEAN :
          IF ok THEN xcreated' = TRUE /\ xpc' = "moving" /\ xerr' = xerr
          ELSE xcreated' = FALSE /\ xpc' = "rejected" /\ xerr' = "create"
    /\ UNCHANGED <<xop, xsize, xcopied, xopened, xmoved, notXfer>>

\* sftpUpload: one round of the write loop
UploadWrite ==
    /\ xop = "upload"
    /\ xpc = "moving"
    /\ IF xmoved < xsize
       THEN \E how \in {"ok", "cancelled", "write"} :
               IF how = "ok"
               THEN xmoved' = xmoved + 1 /\ UNCHANGED <<xpc, xerr>>
               ELSE xpc' = "rejected" /\ xerr' = how /\ xmoved' = xmoved
       ELSE xpc' = "resolved" /\ UNCHANGED <<xmoved, xerr>>
    /\ UNCHANGED <<xop, xsize, xcopied, xcreated, xopened, notXfer>>

\* sftpDownload is called: getSFTPClient
sftpDownload ==
    /\ xpc = "idle"
    /\ xop' = "download"
    /\ \E ok \in BOOLEAN :
          IF ok THEN xpc' = "entered" /\ xerr' = xerr
          ELSE xpc' = "rejected" /\ xerr' = "notFound"
    /\ UNCHANGED <<xsize, xcopied, xcreated, xopened, xmoved, notXfer>>

\* totalSize > maxDownloadSize
TooLarge(n) == n > maxDownloadSize

\* sftpDownload: client.Stat(remotePath) and the check of the size
DownloadStat ==
    /\ xop = "download"
    /\ xpc = "entered"
    /\ \/ /\ xpc' = "rejected"
          /\ xerr' = "stat"
          /\ xsize' = xsize
       \/ \E n \in TransferSizes :
             /\ xsize' = n
             /\ IF TooLarge(n)
                THEN xpc' = "rejected" /\ xerr' = "tooLarge"
                ELSE xpc' = "statted" /\ xerr' = xerr
    /\ UNCHANGED <<xop, xcopied, xcreated, xopened, xmoved, notXfer>>

\* sftpDownload: client.Open(remotePath)
DownloadOpen ==
    /\ xop = "download"
    /\ xpc = "statted"
    /\ \E ok \in BOOLEAN :
          IF ok THEN xopened' = TRUE /\ xpc' = "moving" /\ xerr' = xerr
          ELSE xopened' = FALSE /\ xpc' = "rejected" /\ xerr' = "open"
    /\ UNCHANGED <<xop, xsize, xcopied, xcreated, xmoved, notXfer>>

\* sftpDownload: one round of the read loop
DownloadRead ==
    /\ xop = "download"
    /\ xpc = "moving"
    /\ IF xmoved < xsize
       THEN \E how \in {"ok", "cancelled", "read"} :
               IF how = "ok"
               THEN xmoved' = xmoved + 1 /\ UNCHANGED <<xpc, xerr>>
               ELSE xpc' = "rejected" /\ xerr' = how /\ xmoved' = xmoved
       ELSE xpc' = "resolved" /\ UNCHANGED <<xmoved, xerr>>
    /\ UNCHANGED <<xop, xsize, xcopied, xcreated, xopened, notXfer>>

NextXfer ==
    \/ \E n \in TransferSizes : sftpUpload(n)
    \/ UploadCopy
    \/ UploadCreate
    \/ UploadWrite
    \/ sftpDownload
    \/ DownloadStat
    \/ DownloadOpen
    \/ DownloadRead

(***************************************************************************)
(* The path-taking SFTP operations (sftp.go, sftp_transfer.go).  A path is *)
(* a sequence of characters, each a one-character string; NUL, BS and SP   *)
(* stand for the zero byte, the backslash and the space.                   *)
(***************************************************************************)
\* the longest path of the model
MaxPathLen == 3

NUL == "NUL"
BS == "BS"
SP == "SP"

PathChars == {"/", ".", "a", BS, NUL, CR, LF, SP}

RECURSIVE SeqsUpTo(_, _)
SeqsUpTo(chars, n) ==
    IF n = 0 THEN {<<>>}
    ELSE LET shorter == SeqsUpTo(chars, n - 1)
         IN shorter \cup {Append(q, ch) : q \in shorter, ch \in chars}

Paths == SeqsUpTo(PathChars, MaxPathLen)

\* unicode.IsSpace on the characters of the model
IsSpace(ch) == ch \in {SP, CR, LF}

\* strings.TrimSpace on a path
RECURSIVE TrimPath(_)
TrimPath(q) ==
    IF q = <<>> THEN q
    ELSE IF IsSpace(Head(q)) THEN TrimPath(Tail(q))
    ELSE IF IsSpace(q[Len(q)]) THEN TrimPath(SubSeq(q, 1, Len(q) - 1))
    ELSE q

\* strings.Contains(q, ch) for a one-character ch
Contains(q, ch) == \E i \in 1..Len(q) : q[i] = ch

\* strings.Split(q, "/")
RECURSIVE Split(_)
Split(q) ==
    IF ~Contains(q, "/") THEN <<q>>
    ELSE LET i == CHOOSE k \in 1..Len(q) : q[k] = "/" /\ \A j \in 1..(k - 1) : q[j] # "/"
         IN <<SubSeq(q, 1, i - 1)>> \o Split(SubSeq(q, i + 1, Len(q)))

DotDot == <<".", ".">>

\* the segments path.Clean keeps, in order: empty and "." segments go, a
\* ".." takes the segment before it away or, in a relative path, stays
RECURSIVE Kept(_, _, _)
Kept(segs, rooted, acc) ==
    IF segs = <<>> THEN acc
    ELSE LET seg == Head(segs)
             rest == Tail(segs)
         IN IF seg = <<>> \/ seg = <<".">> THEN Kept(rest, rooted, acc)
            ELSE IF seg = DotDot
            THEN IF acc # <<>> /\ acc[Len(acc)] # DotDot
                 THEN Kept(rest, rooted, SubSeq(acc, 1, Len(acc) - 1))
                 ELSE IF rooted THEN Kept(rest, rooted, acc)
                 ELSE Kept(rest, rooted, Append(acc, seg))
            ELSE Kept(rest, rooted, Append(acc, seg))

RECURSIVE Join(_)
Join(segs) ==
    IF segs = <<>> THEN <<>>
    ELSE IF Len(segs) = 1 THEN Head(segs)
    ELSE Head(segs) \o <<"/">> \o Join(Tail(segs))

\* path.Clean
Clean(q) ==
    IF q = <<>> THEN <<".">>
    ELSE LET rooted == q[1] = "/"
             body == Join(Kept(Split(q), rooted, <<>>))
         IN IF rooted THEN <<"/">> \o body
            ELSE IF body = <<>> THEN <<".">> ELSE body

\* validateSFTPPath(remotePath, strict): the validated path, or the error
validateSFTPPath(remotePath, strict) ==
    LET q == TrimPath(remotePath)
    IN IF q = <<>> THEN [err |-> "required", path |-> <<>>]
       ELSE IF Contains(q, NUL) \/ containsCRLF(q)
       THEN [err |-> "invalid", path |-> <<>>]
       ELSE IF ~strict THEN [err |-> "nil", path |-> q]
       ELSE IF Contains(q, BS) THEN [err |-> "backslash", path |-> <<>>]
       ELSE IF \E i \in 1..Len(Split(q)) : Split(q)[i] = DotDot
       THEN [err |-> "traversal", path |-> <<>>]
       ELSE IF Clean(q)[1] # "/" THEN [err |-> "absolute", path |-> <<>>]
       ELSE [err |-> "nil", path |-> Clean(q)]

\* the operations of sftp.go, which validate their paths
CheckedOps == {"list", "stat", "mkdir", "remove", "rename", "chmod"}

\* the operations of sftp_transfer.go
TransferOps == {"upload", "download", "uploadStream", "downloadStream"}

IdlePath ==
    /\ fsop = "none"
    /\ fsstrict = FALSE
    /\ fsargs = <<>>
    /\ fspc = "idle"
    /\ fsreq = <<>>

\* an operation is called on an open SFTP session: rename with two paths,
\* every other one with one
SftpCall(op, strict, args) ==
    /\ fspc = "idle"
    /\ Len(args) = IF op = "rename" THEN 2 ELSE 1
    /\ fsop' = op
    /\ fsstrict' = strict
    /\ fsargs' = args
    /\ fspc' = "called"
    /\ fsreq' = <<>>
    /\ UNCHANGED <<notPath>>

\* the operations of sftp.go: each path goes through validateSFTPPath, the
\* first error rejects, the validated paths go to the remote
CheckedOp ==
    /\ fspc = "called"
    /\ fsop \in CheckedOps
    /\ LET res == [i \in 1..Len(fsargs) |-> validateSFTPPath(fsargs[i], fsstrict)]
       IN IF \E i \in 1..Len(res) : res[i].err # "nil"
          THEN fspc' = "rejected" /\ fsreq' = <<>>
          ELSE fspc' = "sent" /\ fsreq' = [i \in 1..Len(res) |-> res[i].path]
    /\ UNCHANGED <<fsop, fsstrict, fsargs, notPath>>

\* the operations of sftp_transfer.go: the path goes to client.Create,
\* client.Stat or client.Open as it came
TransferOp ==
    /\ fspc = "called"
    /\ fsop \in TransferOps
    /\ fspc' = "sent"
    /\ fsreq' = fsargs
    /\ UNCHANGED <<fsop, fsstrict, fsargs, notPath>>

\* the promise of the operation settles
SftpReturn ==
    /\ fspc \in {"sent", "rejected"}
    /\ fsop' = "none"
    /\ fsstrict' = FALSE
    /\ fsargs' = <<>>
    /\ fspc' = "idle"
    /\ fsreq' = <<>>
    /\ UNCHANGED <<notPath>>

\* the second path of a rename in the model
NewPaths == {<<"/", "a">>, <<"a">>, <<"/", LF, "a">>, <<".", ".">>}

NextPath ==
    \/ \E op \in (CheckedOps \cup TransferOps) \ {"rename"}, strict \in BOOLEAN, q \in Paths :
          SftpCall(op, strict, <<q>>)
    \/ \E strict \in BOOLEAN, q \in Paths, r \in NewPaths :
          SftpCall("rename", strict, <<q, r>>)
    \/ CheckedOp
    \/ TransferOp
    \/ SftpReturn

(***************************************************************************)
(* removeRecursive (sftp.go) on a small remote file system: the entry r    *)
(* that is removed, a and b in it, c in a, and outside of r the directory  *)
(* t with the file u, to which every symbolic link points.                 *)
(***************************************************************************)
Inside == {"r", "a", "b", "c"}
Entries == Inside \cup {"t", "u"}
Kinds == {"dir", "file", "link"}

\* the entries a directory lists
Children(n) ==
    CASE n = "r" -> {"a", "b"}
      [] n = "a" -> {"c"}
      [] n = "t" -> {"u"}
      [] OTHER -> {}

LinkTarget == "t"

\* the file systems of the model: r, a, b and c are anything, t is a
\* directory and u a file
FileSystems ==
    { [n \in Entries |-> IF n \in Inside THEN k[n] ELSE IF n = "t" THEN "dir" ELSE "file"] :
        k \in [Inside -> Kinds] }

IdleRm ==
    /\ rmpc = "idle"
    /\ rmkind = [n \in Entries |-> "file"]
    /\ rmleft = {}
    /\ rmstack = <<>>
    /\ rmdeleted = <<>>

\* client.Stat: the kind of what the path leads to, links followed
Stat(kind, n) == IF kind[n] = "link" THEN kind[LinkTarget] ELSE kind[n]

\* client.Lstat: the kind of the entry itself
Lstat(kind, n) == kind[n]

\* client.ReadDir: the remote opens the directory the path leads to
ReadDir(kind, left, n) ==
    Children(IF kind[n] = "link" THEN LinkTarget ELSE n) \cap left

\* sftpRemove(path, recursive = true) has validated the path and calls
\* removeRecursive
RemoveCall(fsys) ==
    /\ rmpc = "idle"
    /\ rmpc' = "running"
    /\ rmkind' = fsys
    /\ rmleft' = Entries
    /\ rmstack' = << [node |-> "r", at |-> "lstat", todo |-> {}] >>
    /\ rmdeleted' = <<>>
    /\ UNCHANGED <<notRm>>

\* a call of removeRecursive returns nil: its caller goes on
Popped(stack) == SubSeq(stack, 1, Len(stack) - 1)

\* removeRecursive: Lstat, then Remove of a link or a file, or ReadDir of
\* a directory
RemoveVisit ==
    /\ rmpc = "running"
    /\ rmstack # <<>>
    /\ LET top == rmstack[Len(rmstack)]
       IN /\ top.at = "lstat"
          /\ IF Lstat(rmkind, top.node) # "dir"
             THEN \E ok \in BOOLEAN :
                     IF ok
                     THEN /\ rmleft' = rmleft \ {top.node}
                          /\ rmdeleted' = Append(rmdeleted, top.node)
                          /\ rmstack' = Popped(rmstack)
                          /\ rmpc' = IF Len(rmstack) = 1 THEN "done" ELSE rmpc
                     ELSE /\ rmpc' = "failed"
                          /\ rmstack' = <<>>
                          /\ UNCHANGED <<rmleft, rmdeleted>>
             ELSE /\ rmstack' = [rmstack EXCEPT ![Len(rmstack)] =
                                    [node |-> top.node, at |-> "walk",
                                     todo |-> ReadDir(rmkind, rmleft, top.node)]]
                  /\ UNCHANGED <<rmpc, rmleft, rmdeleted>>
    /\ UNCHANGED <<rmkind, notRm>>

\* removeRecursive: the loop over the entries calls removeRecursive for the
\* next child
RemoveDescend ==
    /\ rmpc = "running"
    /\ rmstack # <<>>
    /\ LET top == rmstack[Len(rmstack)]
       IN /\ top.at = "walk"
          /\ \E ch \in top.todo :
                rmstack' = Append([rmstack EXCEPT ![Len(rmstack)].todo = top.todo \ {ch}],
                                  [node |-> ch, at |-> "lstat", todo |-> {}])
    /\ UNCHANGED <<rmpc, rmkind, rmleft, rmdeleted, notRm>>

\* removeRecursive: client.RemoveDirectory after the loop; the remote
\* removes a real, empty directory and refuses anything else
RemoveDirectory ==
    /\ rmpc = "running"
    /\ rmstack # <<>>
    /\ LET top == rmstack[Len(rmstack)]
       IN /\ top.at = "walk"
          /\ top.todo = {}
          /\ IF rmkind[top.node] = "dir" /\ Children(top.node) \cap rmleft = {}
             THEN /\ rmleft' = rmleft \ {top.node}
                  /\ rmdeleted' = Append(rmdeleted, top.node)
                  /\ rmstack' = Popped(rmstack)
                  /\ rmpc' = IF Len(rmstack) = 1 THEN "done" ELSE rmpc
             ELSE /\ rmpc' = "failed"
                  /\ rmstack' = <<>>
                  /\ UNCHANGED <<rmleft, rmdeleted>>
    /\ UNCHANGED <<rmkind, notRm>>

NextRm ==
    \/ \E fsys \in FileSystems : RemoveCall(fsys)
    \/ RemoveVisit
    \/ RemoveDescend
    \/ RemoveDirectory

(***************************************************************************)
(* awaitPromise (jsutil.go): a task waits for a host promise or for the    *)
(* end of its context.  The host runs the reactions of a settled promise   *)
(* as a job of its own, after the settlement.                              *)
(***************************************************************************)
\* the waits in progress: one per host key that is being verified
Waits == {"jump", "final"}

Settlements == {"true", "false", "rejected"}

IdleAwait ==
    /\ apc = [w \in Waits |-> "idle"]
    /\ promise = [w \in Waits |-> "pending"]
    /\ reacted = [w \in Waits |-> FALSE]
    /\ valCh = [w \in Waits |-> <<>>]
    /\ errCh = [w \in Waits |-> <<>>]
    /\ actx = [w \in Waits |-> FALSE]
    /\ funcs = [w \in Waits |-> FALSE]
    /\ aout = [w \in Waits |-> "none"]
    /\ events = [w \in Waits |-> <<>>]
    /\ lateCalls = [w \in Waits |-> 0]

\* the host settles the promise
PromiseSettles(w, how) ==
    /\ promise[w] = "pending"
    /\ promise' = [promise EXCEPT ![w] = how]
    /\ events' = [events EXCEPT ![w] = Append(@, IF how = "rejected" THEN "reject" ELSE "resolve")]
    /\ UNCHANGED <<apc, reacted, valCh, errCh, actx, funcs, aout, lateCalls, notAwait>>

\* the deadline of ctx passes or its parent is cancelled
DeadlineExpires(w) ==
    /\ ~actx[w]
    /\ actx' = [actx EXCEPT ![w] = TRUE]
    /\ events' = [events EXCEPT ![w] = Append(@, "deadline")]
    /\ UNCHANGED <<apc, promise, reacted, valCh, errCh, funcs, aout, lateCalls, notAwait>>

\* awaitPromise up to the select: the two channels, thenFn, catchFn,
\* promise.then(thenFn).catch(catchFn)
AwaitCall(w) ==
    /\ apc[w] = "idle"
    /\ apc' = [apc EXCEPT ![w] = "waiting"]
    /\ funcs' = [funcs EXCEPT ![w] = TRUE]
    /\ UNCHANGED <<promise, reacted, valCh, errCh, actx, aout, events, lateCalls, notAwait>>

\* the host runs the reaction of the settled promise: thenFn or catchFn is
\* called; a released js.Func does not run its Go function
PromiseReaction(w) ==
    /\ apc[w] # "idle"
    /\ promise[w] # "pending"
    /\ ~reacted[w]
    /\ reacted' = [reacted EXCEPT ![w] = TRUE]
    /\ IF funcs[w]
       THEN /\ valCh' = [valCh EXCEPT ![w] = IF promise[w] = "rejected" THEN @ ELSE <<promise[w]>>]
            /\ errCh' = [errCh EXCEPT ![w] = IF promise[w] = "rejected" THEN <<"error">> ELSE @]
            /\ lateCalls' = lateCalls
       ELSE /\ lateCalls' = [lateCalls EXCEPT ![w] = @ + 1]
            /\ UNCHANGED <<valCh, errCh>>
    /\ UNCHANGED <<apc, promise, actx, funcs, aout, events, notAwait>>

ReadyCasesAny(c, e, done) == {"value", "error", "timeout"}

\* the cases of the select that are ready
ReadyCases(c, e, done) ==
    {x \in {"value", "error", "timeout"} :
        \/ x = "value" /\ c # <<>>
        \/ x = "error" /\ e # <<>>
        \/ x = "timeout" /\ done}

\* the select returns by one of its ready cases; the deferred Release of
\* catchFn and thenFn runs
AwaitReturn(w) ==
    /\ apc[w] = "waiting"
    /\ \E x \in ReadyCases(valCh[w], errCh[w], actx[w]) :
          /\ aout' = [aout EXCEPT ![w] =
                        IF x = "value" THEN (IF valCh[w] # <<>> THEN valCh[w][1] ELSE "true")
                        ELSE x]
          /\ valCh' = [valCh EXCEPT ![w] = IF x = "value" THEN <<>> ELSE @]
          /\ errCh' = [errCh EXCEPT ![w] = IF x = "error" THEN <<>> ELSE @]
    /\ apc' = [apc EXCEPT ![w] = "returned"]
    /\ funcs' = [funcs EXCEPT ![w] = FALSE]
    /\ UNCHANGED <<promise, reacted, actx, events, lateCalls, notAwait>>

NextAwait ==
    \/ \E w \in Waits, how \in Settlements : PromiseSettles(w, how)
    \/ \E w \in Waits : DeadlineExpires(w)
    \/ \E w \in Waits : AwaitCall(w)
    \/ \E w \in Waits : PromiseReaction(w)
    \/ \E w \in Waits : AwaitReturn(w)

(***************************************************************************)
(* The binary frame codec (portforward.go): four bytes of connection-id    *)
(* length, big-endian, then the connection id, then the payload.  A byte   *)
(* is a number in 0..255; int has 64 bits in the build, so the header      *)
(* value never wraps.                                                      *)
(***************************************************************************)
\* the longest connection id parseBinaryFrame accepts (256 in the source,
\* scaled down)
maxConnIDLen == 2

\* the longest payload the builder is given
MaxPayload == 2

\* the bytes of the header of an arriving frame, and of everything after it
HeaderBytes == 0..(maxConnIDLen + 1) \cup {127}
BodyBytes == {7, 9}

\* the frames that arrive: any header or part of one, and after a whole
\* header any bytes, up to one more than the longest connection id
ArrivingFrames ==
    {h \o b : h \in {q \in SeqsUpTo(HeaderBytes, 4) : Len(q) = 4},
              b \in SeqsUpTo(BodyBytes, maxConnIDLen + 1)}
        \cup SeqsUpTo(HeaderBytes, 3)

ConnIds == SeqsUpTo(BodyBytes, maxConnIDLen) \ {<<>>}
Payloads == SeqsUpTo(BodyBytes, MaxPayload)

NoSource == [connID |-> <<>>, payload |-> <<>>, built |-> FALSE]
NoResult == [connID |-> <<>>, payload |-> <<>>]

IdleFrame ==
    /\ frpc = "idle"
    /\ frbuf = <<>>
    /\ frsrc = NoSource
    /\ frout = NoResult

\* int(data[0])<<24 | int(data[1])<<16 | int(data[2])<<8 | int(data[3])
HeaderValue(data) ==
    data[1] * 16777216 + data[2] * 65536 + data[3] * 256 + data[4]

IdLenRejectedLax(idLen, n) == idLen <= 0 \/ 4 + idLen > n

\* idLen <= 0 || idLen > 256 || 4+idLen > len(data)
IdLenRejected(idLen, n) == idLen <= 0 \/ idLen > maxConnIDLen \/ 4 + idLen > n

\* parseBinaryFrame
parseBinaryFrame(data) ==
    IF Len(data) < 4 THEN NoResult
    ELSE LET idLen == HeaderValue(data)
         IN IF IdLenRejected(idLen, Len(data)) THEN NoResult
            ELSE [connID |-> SubSeq(data, 5, 4 + idLen),
                  payload |-> SubSeq(data, 5 + idLen, Len(data))]

\* the four header bytes with the last byte first
HeaderOfLenLE(idLen) ==
    << idLen % 256, (idLen \div 256) % 256, (idLen \div 65536) % 256,
       (idLen \div 16777216) % 256 >>

\* byte(idLen >> 24), byte(idLen >> 16), byte(idLen >> 8), byte(idLen)
HeaderOfLen(idLen) ==
    << (idLen \div 16777216) % 256, (idLen \div 65536) % 256,
       (idLen \div 256) % 256, idLen % 256 >>

\* buildBinaryFrameWASM
buildBinaryFrameWASM(connID, payload) == HeaderOfLen(Len(connID)) \o connID \o payload

\* a binary frame arrives from the tunnel
FrameArrives(data) ==
    /\ frpc = "idle"
    /\ frpc' = "pending"
    /\ frbuf' = data
    /\ frsrc' = NoSource
    /\ frout' = NoResult
    /\ UNCHANGED <<notFrame>>

\* the frame is one that buildBinaryFrameWASM built
FrameBuilt(connID, payload) ==
    /\ frpc = "idle"
    /\ frpc' = "pending"
    /\ frbuf' = buildBinaryFrameWASM(connID, payload)
    /\ frsrc' = [connID |-> connID, payload |-> payload, built |-> TRUE]
    /\ frout' = NoResult
    /\ UNCHANGED <<notFrame>>

\* the pump calls parseBinaryFrame on the frame
FrameParsed ==
    /\ frpc = "pending"
    /\ frpc' = "parsed"
    /\ frout' = parseBinaryFrame(frbuf)
    /\ UNCHANGED <<frbuf, frsrc, notFrame>>

\* the frames that can arrive, and the connection ids a frame can be built
\* for, while the pump is about to read
FramesNow == IF frpc = "idle" THEN ArrivingFrames ELSE {}
ConnIdsNow == IF frpc = "idle" THEN ConnIds ELSE {}

NextFrame ==
    \/ \E data \in FramesNow : FrameArrives(data)
    \/ \E connID \in ConnIdsNow, payload \in Payloads : FrameBuilt(connID, payload)
    \/ FrameParsed

(***************************************************************************)
(* The in-memory agent (agent.go) and buildAuthMethods (ssh.go): what      *)
(* connect checks of the authentication method before it dials.            *)
(***************************************************************************)
Keys == {"k1", "k2"}

\* config.authMethod; "" is a config without one
AuthMethods == {"password", "key", "agent", ""}

\* config.password or config.keyPEM: absent, usable, or a PEM that does
\* not parse
Secrets == {"", "good", "bad"}

AuthConfigs == [authMethod : AuthMethods, secret : Secrets]

NoAuth == [authMethod |-> "", secret |-> ""]

IdleAuth ==
    /\ keyring = {}
    /\ aupc = "idle"
    /\ aucfg = NoAuth
    /\ auring = {}
    /\ ausock = "none"
    /\ auerr = ""

\* globalAgent == nil: init() stores agent.NewKeyring() in globalAgent and
\* nothing assigns it again
globalAgentIsNil == FALSE

\* buildAuthMethods(config): "" or the error
buildAuthMethods(c) ==
    CASE c.authMethod = "password" ->
            IF c.secret = "" THEN "password required for password auth" ELSE ""
      [] c.authMethod = "key" ->
            IF c.secret = "" THEN "keyPEM required for key auth"
            ELSE IF c.secret = "bad" THEN "parse key" ELSE ""
      [] c.authMethod = "agent" ->
            IF globalAgentIsNil THEN "no agent keys loaded" ELSE ""
      [] OTHER -> "unknown authMethod"

\* agentAddKey with a key that parses
agentAddKey(k) ==
    /\ keyring' = keyring \cup {k}
    /\ UNCHANGED <<aupc, aucfg, auring, ausock, auerr, notAuth>>

\* agentRemoveKey: the key with the fingerprint is removed, if it is there
agentRemoveKey(k) ==
    /\ k \in keyring
    /\ keyring' = keyring \ {k}
    /\ UNCHANGED <<aupc, aucfg, auring, ausock, auerr, notAuth>>

agentRemoveAll ==
    /\ keyring' = {}
    /\ UNCHANGED <<aupc, aucfg, auring, ausock, auerr, notAuth>>

\* connect(config) is called with host, user and proxy URL given
AuthConnect(c) ==
    /\ aupc \in {"idle", "done"}
    /\ aupc' = "validate"
    /\ aucfg' = c
    /\ auring' = {}
    /\ ausock' = "none"
    /\ auerr' = ""
    /\ UNCHANGED <<keyring, notAuth>>

\* authMethods, err := buildAuthMethods(config); on an error connect rejects
AuthBuild ==
    /\ aupc = "validate"
    /\ auring' = keyring
    /\ auerr' = buildAuthMethods(aucfg)
    /\ aupc' = IF buildAuthMethods(aucfg) = "" THEN "dial" ELSE "done"
    /\ UNCHANGED <<keyring, aucfg, ausock, notAuth>>

\* DialWebSocket opens the socket to the relay
AuthDial ==
    /\ aupc = "dial"
    /\ aupc' = "kex"
    /\ ausock' = "open"
    /\ UNCHANGED <<keyring, aucfg, auring, auerr, notAuth>>

\* ssh.NewClientConn: the agent method offers globalAgent.Signers(), the
\* keys held now; with none to offer, or when the server refuses, the
\* handshake fails and connect closes the stream
AuthHandshake ==
    /\ aupc = "kex"
    /\ aupc' = "done"
    /\ \E granted \in BOOLEAN :
          IF granted /\ ~(aucfg.authMethod = "agent" /\ keyring = {})
          THEN UNCHANGED <<ausock, auerr>>
          ELSE /\ ausock' = "closed"
               /\ auerr' = "SSH handshake failed"
    /\ UNCHANGED <<keyring, aucfg, auring, notAuth>>

NextAuth ==
    \/ \E k \in Keys : agentAddKey(k)
    \/ \E k \in Keys : agentRemoveKey(k)
    \/ agentRemoveAll
    \/ \E c \in AuthConfigs : AuthConnect(c)
    \/ AuthBuild
    \/ AuthDial
    \/ AuthHandshake

(***************************************************************************)
(* session.close (ssh.go), one statement at a time, for one session "s"    *)
(* and the registry entries that exist when it is called.                  *)
(***************************************************************************)
\* the ids in sftpStore and forwardStore
RegSftp == {"f1", "f2"}
RegFwd == {"t1"}

\* who an id is registered for: this session, another one, or nobody
Owners == {"s", "other", "-"}

\* the fields of the session that close closes
Resources == {"stdin", "sshSession", "sshClient", "conn", "jumpClient", "jumpConn"}

\* the statements of the function closeOnce.Do runs, in the order of the
\* source, with onClose.Invoke ahead of the rest
CloseOrderNotifyFirst ==
    <<"notify", "cancel", "sftp", "forwards", "stdin", "sshSession", "sshClient",
      "conn", "jumpClient", "jumpConn", "delete">>

\* the statements of the function closeOnce.Do runs, in the order of the
\* source
CloseOrder ==
    <<"cancel", "sftp", "forwards", "stdin", "sshSession", "sshClient", "conn",
      "jumpClient", "jumpConn", "delete", "notify">>

\* the fields of a session as sshConnect stores it: conn is the WebSocket
\* of a direct connect and nil on the jump path, jumpClient and jumpConn
\* are set on the jump path only
SessionFields(hasJump) ==
    [r \in Resources |->
        IF r \in {"jumpClient", "jumpConn"} THEN (IF hasJump THEN "open" ELSE "nil")
        ELSE IF r = "conn" THEN (IF hasJump THEN "nil" ELSE "open")
        ELSE "open"]

IdleClose ==
    /\ clpc = 0
    /\ clsess = [hasJump |-> FALSE, hasOnClose |-> FALSE]
    /\ clctx = FALSE
    /\ clsftp = [f \in RegSftp |-> "-"]
    /\ clclient = [f \in RegSftp |-> "closed"]
    /\ clfwd = [t \in RegFwd |-> "-"]
    /\ clclean = {}
    /\ clres = [r \in Resources |-> "nil"]
    /\ clstored = FALSE
    /\ clnotified = 0

\* a stored session, with any SFTP sessions and forwards registered
StartClose ==
    /\ clpc = 0
    /\ clsess \in [hasJump : BOOLEAN, hasOnClose : BOOLEAN]
    /\ clctx = FALSE
    /\ clsftp \in [RegSftp -> Owners]
    /\ clclient = [f \in RegSftp |-> IF clsftp[f] = "-" THEN "closed" ELSE "open"]
    /\ clfwd \in [RegFwd -> Owners]
    /\ clclean = {}
    /\ clres = SessionFields(clsess.hasJump)
    /\ clstored = TRUE
    /\ clnotified = 0

\* if s.x != nil { s.x.Close() }
Closed(res, r) == [res EXCEPT ![r] = IF @ = "nil" THEN "nil" ELSE "closed"]

\* sess.close(reason): closeOnce admits the first call
CloseEnter ==
    /\ clpc = 0
    /\ clpc' = 1
    /\ UNCHANGED <<clsess, clctx, clsftp, clclient, clfwd, clclean, clres,
                   clstored, clnotified, notClose>>

\* the next statement of the function runs
CloseStep ==
    /\ clpc \in 1..Len(CloseOrder)
    /\ clpc' = clpc + 1
    /\ LET step == CloseOrder[clpc] IN
       /\ clctx' = (clctx \/ step = "cancel")
       /\ clsftp' = IF step = "sftp"
                    THEN [f \in RegSftp |-> IF clsftp[f] = "s" THEN "-" ELSE clsftp[f]]
                    ELSE clsftp
       /\ clclient' = IF step = "sftp"
                      THEN [f \in RegSftp |-> IF clsftp[f] = "s" THEN "closed"
                                              ELSE clclient[f]]
                      ELSE clclient
       /\ clfwd' = IF step = "forwards"
                   THEN [t \in RegFwd |-> IF clfwd[t] = "s" THEN "-" ELSE clfwd[t]]
                   ELSE clfwd
       /\ clclean' = IF step = "forwards"
                     THEN clclean \cup {t \in RegFwd : clfwd[t] = "s"}
                     ELSE clclean
       /\ clres' = IF step \in Resources THEN Closed(clres, step) ELSE clres
       /\ clstored' = (clstored /\ step # "delete")
       /\ clnotified' = IF step = "notify" /\ clsess.hasOnClose
                        THEN clnotified + 1 ELSE clnotified
    /\ UNCHANGED <<clsess, notClose>>

NextClose ==
    \/ CloseEnter
    \/ CloseStep

(***************************************************************************)
(* The keepalive task that sshConnect starts for a session (ssh.go).       *)
(***************************************************************************)
\* const maxFailures = 3
maxFailures == 3

\* the requests the model follows
MaxRequests == 5

\* the task has just been started: the ticker runs, nothing has ticked
IdleKa ==
    /\ kapc = "select"
    /\ failures = 0
    /\ katick = FALSE
    /\ kadone = FALSE
    /\ kaclosedBy = "none"
    /\ kacalls = 0
    /\ kahist = <<>>
    /\ kalate = 0

\* a counter that a reply leaves alone
FailuresKept(n, replied) == IF replied THEN n ELSE n + 1

\* failures++ on an error, failures = 0 on a reply
FailuresAfter(n, replied) == IF replied THEN 0 ELSE n + 1

\* the cases of the select that are ready
KeepaliveReady == (IF kadone THEN {"done"} ELSE {}) \cup (IF katick THEN {"tick"} ELSE {})

\* the ticker sends a tick; ticker.C holds one tick, and the deferred
\* ticker.Stop() ends the ticks when the task returns
Tick ==
    /\ kapc # "returned"
    /\ ~katick
    /\ katick' = TRUE
    /\ UNCHANGED <<kapc, failures, kadone, kaclosedBy, kacalls, kahist, kalate, notKa>>

\* another task closes the session: s.cancel()
SessionClosedElsewhere ==
    /\ ~kadone
    /\ kadone' = TRUE
    /\ kaclosedBy' = "other"
    /\ UNCHANGED <<kapc, failures, katick, kacalls, kahist, kalate, notKa>>

\* the select: one of the ready cases is taken; on sessCtx.Done() the task
\* returns, on a tick it sends the request and waits for the reply
KeepaliveSelect ==
    /\ kapc = "select"
    /\ \E c \in KeepaliveReady :
          IF c = "done"
          THEN /\ kapc' = "returned"
               /\ UNCHANGED <<katick, kalate>>
          ELSE /\ Len(kahist) < MaxRequests
               /\ kapc' = "request"
               /\ katick' = FALSE
               /\ kalate' = IF kadone THEN kalate + 1 ELSE kalate
    /\ UNCHANGED <<failures, kadone, kaclosedBy, kacalls, kahist, notKa>>

\* sshClient.SendRequest returns, with the reply or with an error; at the
\* third failure the task calls sess.close and returns
KeepaliveReply ==
    /\ kapc = "request"
    /\ \E replied \in BOOLEAN :
          /\ kahist' = Append(kahist, replied)
          /\ IF FailuresAfter(failures, replied) >= maxFailures
             THEN /\ failures' = FailuresAfter(failures, replied)
                  /\ kacalls' = kacalls + 1
                  /\ kadone' = TRUE
                  /\ kaclosedBy' = IF kadone THEN kaclosedBy ELSE "keepalive"
                  /\ kapc' = "returned"
             ELSE /\ failures' = FailuresAfter(failures, replied)
                  /\ kapc' = "select"
                  /\ UNCHANGED <<kacalls, kadone, kaclosedBy>>
    /\ UNCHANGED <<katick, kalate, notKa>>

NextKa ==
    \/ Tick
    \/ SessionClosedElsewhere
    \/ KeepaliveSelect
    \/ KeepaliveReply

(***************************************************************************)
(* tcp_open and tcp_close (portforward.go): the dispatch of tcp_open under *)
(* the permits of fwd.sem, and the ways handleTCPOpen ends.                *)
(***************************************************************************)
\* the permits of fwd.sem (maxConcurrentHandlers in the source, scaled down)
OpenPermits == 2

\* the tcp_open frames the model follows
MaxOpens == 4

Permits == 1..OpenPermits

ConnIDs == {"a", "b"}

IdleOpen ==
    /\ opc = [h \in Permits |-> "free"]
    /\ oconn = [h \in Permits |-> ""]
    /\ odone = [h \in Permits |-> 0]
    /\ omap = [c \in ConnIDs |-> 0]
    /\ opens = [c \in ConnIDs |-> 0]
    /\ closes = [c \in ConnIDs |-> 0]
    /\ otunnel = "open"
    /\ octx = FALSE

\* a handler that ends without a tcp_close
sendNothing(sent, c) == sent

\* sendTCPClose(connID): the frame is written to the tunnel, or the write
\* fails on a closed tunnel
sendTCPClose(sent, c) == [sent EXCEPT ![c] = @ + 1]

\* the pump reads tcp_open for connId c: with a permit handleTCPOpen starts
\* and dials, without one the pump sends tcp_close itself
OpenArrives(c) ==
    /\ otunnel = "open"
    /\ opens["a"] + opens["b"] < MaxOpens
    /\ opens' = [opens EXCEPT ![c] = @ + 1]
    /\ IF \E h \in Permits : opc[h] = "free"
       THEN LET h == CHOOSE g \in Permits : opc[g] = "free" IN
            /\ opc' = [opc EXCEPT ![h] = "dial"]
            /\ oconn' = [oconn EXCEPT ![h] = c]
            /\ UNCHANGED closes
       ELSE /\ closes' = sendTCPClose(closes, c)
            /\ UNCHANGED <<opc, oconn>>
    /\ UNCHANGED <<odone, omap, otunnel, octx, notOpen>>

\* sshDialWithTimeout returns: without a channel the handler sends
\* tcp_close and returns; with one it stores its queue under its connId and
\* starts its two subtasks
OpenDialled(h) ==
    /\ opc[h] = "dial"
    /\ \E ok \in BOOLEAN :
          IF ok
          THEN /\ omap' = [omap EXCEPT ![oconn[h]] = h]
               /\ opc' = [opc EXCEPT ![h] = "wait"]
               /\ UNCHANGED <<closes, oconn>>
          ELSE /\ closes' = sendTCPClose(closes, oconn[h])
               /\ opc' = [opc EXCEPT ![h] = "free"]
               /\ oconn' = [oconn EXCEPT ![h] = ""]
               /\ UNCHANGED omap
    /\ UNCHANGED <<odone, opens, otunnel, octx, notOpen>>

\* one of the two subtasks of the handler returns and signals done
SubtaskDone(h) ==
    /\ opc[h] = "wait"
    /\ odone[h] < 2
    /\ odone' = [odone EXCEPT ![h] = @ + 1]
    /\ UNCHANGED <<opc, oconn, omap, opens, closes, otunnel, octx, notOpen>>

\* the handler has waited for both subtasks: it sends tcp_close and
\* returns, and its deferred calls delete the entry of its connId
OpenReturn(h) ==
    /\ opc[h] = "wait"
    /\ odone[h] = 2
    /\ closes' = sendTCPClose(closes, oconn[h])
    /\ omap' = [omap EXCEPT ![oconn[h]] = 0]
    /\ opc' = [opc EXCEPT ![h] = "free"]
    /\ oconn' = [oconn EXCEPT ![h] = ""]
    /\ odone' = [odone EXCEPT ![h] = 0]
    /\ UNCHANGED <<opens, otunnel, octx, notOpen>>

\* fwd.cleanup(): the token is cancelled and the tunnel closed
OpenCleanup ==
    /\ otunnel = "open"
    /\ otunnel' = "closed"
    /\ octx' = TRUE
    /\ UNCHANGED <<opc, oconn, odone, omap, opens, closes, notOpen>>

NextOpen ==
    \/ \E c \in ConnIDs : OpenArrives(c)
    \/ \E h \in Permits : OpenDialled(h)
    \/ \E h \in Permits : SubtaskDone(h)
    \/ \E h \in Permits : OpenReturn(h)
    \/ OpenCleanup

(***************************************************************************)
(* The tunnel stream as a carrier of frames.  The relay sends tunnel_ready *)
(* and then one frame per WebSocket message; portForwardStart decodes      *)
(* tunnel_ready from the adapter, handleTunnelMessages reads the adapter   *)
(* into a 64 KiB buffer and treats what one Read returned as one frame;    *)
(* the forwarder writes its own frames with wsConn.Write.                  *)
(***************************************************************************)
\* the pump's read buffer (64 KiB in the source, scaled down)
PumpBuf == 8

\* the buffer the JSON decoder of portForwardStart reads into (512 bytes in
\* encoding/json, scaled down)
DecBuf == 6

\* wsWriteChunkSize (4096 in the source, scaled down)
wsWriteChunkSize == 6

\* the frames the relay sends after tunnel_ready, and the frames the
\* forwarder writes, in one run
MaxRelay == 3
MaxWrites == 2

\* '{' and '}'
LBrace == 123
RBrace == 125

\* the "type" of a JSON control frame, as the one byte between the braces
JsonTypes == [tunnel_ready |-> 0, http_request |-> 1, tcp_open |-> 2,
              http_response |-> 3, tcp_close |-> 4]

\* a JSON document of the tunnel protocol
JsonDoc(t) == <<LBrace, t, RBrace>>

\* an http_response whose body makes the document longer
JsonDocWithBody(t, body) == <<LBrace, t>> \o body \o <<RBrace>>

\* the connection of the model, registered in fwd.tcpChans
TunnelConn == <<7>>

\* what the relay sends and what the pump dispatches, as frames
JsonFrame(t) == [kind |-> "json", type |-> t, connID |-> <<>>, payload |-> <<>>]
BinaryFrameOf(c, pl) == [kind |-> "binary", type |-> 0, connID |-> c, payload |-> pl]

\* the frames of the relay: the two control frames the pump acts on, a short
\* binary frame and one that is longer than the pump's buffer
RelayFrames ==
    {JsonFrame(JsonTypes.http_request), JsonFrame(JsonTypes.tcp_open),
     BinaryFrameOf(TunnelConn, <<1>>), BinaryFrameOf(TunnelConn, <<1, 2, 1, 2>>)}

\* the WebSocket message that carries a frame
MessageOf(f) ==
    IF f.kind = "json" THEN JsonDoc(f.type)
    ELSE buildBinaryFrameWASM(f.connID, f.payload)

\* the frames the forwarder writes: tcp_close, http_response without and
\* with a body, and binary frames for a short and a long SSH read batch
WrittenFrames ==
    {JsonDoc(JsonTypes.tcp_close), JsonDoc(JsonTypes.http_response),
     JsonDocWithBody(JsonTypes.http_response, <<5, 5, 5, 5, 5>>),
     buildBinaryFrameWASM(TunnelConn, <<1>>),
     buildBinaryFrameWASM(TunnelConn, <<1, 2, 1, 2>>)}

IdleMux ==
    /\ mpc = "idle"
    /\ mq = <<>>
    /\ mbuf = <<>>
    /\ msent = <<>>
    /\ mdisp = <<>>
    /\ mframes = <<>>
    /\ mout = <<>>

\* DialWebSocket has returned and the relay's tunnel_ready is queued
StartMux ==
    /\ mpc = "decode"
    /\ mq = <<JsonDoc(JsonTypes.tunnel_ready)>>
    /\ mbuf = <<>>
    /\ msent = <<>>
    /\ mdisp = <<>>
    /\ mframes = <<>>
    /\ mout = <<>>

\* isJSON: the first byte is '{' (the frames of the model carry no blanks)
isJSON(data) == data # <<>> /\ data[1] = LBrace

\* json.Unmarshal accepts exactly one document: bytes after it are an error
Unmarshals(data) == Len(data) = 3 /\ data[1] = LBrace /\ data[3] = RBrace

\* one pass of the loop of handleTunnelMessages over what Read returned: the
\* frames it dispatches (none or one)
PumpDispatch(data) ==
    LET f == parseBinaryFrame(data) IN
    IF Len(data) >= 4 /\ ~isJSON(data) /\ f.connID # <<>>
    THEN IF f.connID = TunnelConn
         THEN <<BinaryFrameOf(f.connID, f.payload)>>
         ELSE <<>>
    ELSE IF Unmarshals(data)
              /\ data[2] \in {JsonTypes.http_request, JsonTypes.tcp_open}
         THEN <<JsonFrame(data[2])>>
         ELSE <<>>

\* wsConn.Read on the tunnel adapter with a buffer of p bytes: the leftover
\* of c.buf first, else the next message and the greedy drain
TunnelRead(p) ==
    IF mbuf # <<>>
    THEN LET r == ServeBuf(mbuf, p) IN [out |-> r.out, buf |-> r.buf, q |-> mq]
    ELSE Receive(Head(mq), p, Tail(mq))

\* the relay sends one more frame: onMessage enqueues the message
RelaySends(f) ==
    /\ mpc \in {"decode", "pump"}
    /\ Len(msent) < MaxRelay
    /\ mq' = Append(mq, MessageOf(f))
    /\ msent' = Append(msent, f)
    /\ UNCHANGED <<mpc, mbuf, mdisp, mframes, mout, notMux>>

\* portForwardStart: json.NewDecoder(io.LimitReader(tunnelConn, 1<<20)).Decode;
\* the decoder reads once into its buffer, decodes the first document and is
\* dropped with whatever else that read returned
TunnelReadyDecode ==
    /\ mpc = "decode"
    /\ mq # <<>>
    /\ LET r == TunnelRead(DecBuf) IN
          /\ mbuf' = r.buf
          /\ mq' = r.q
    /\ mpc' = "pump"
    /\ UNCHANGED <<msent, mdisp, mframes, mout, notMux>>

\* handleTunnelMessages: n, err := fwd.tunnelConn.Read(buf) and the dispatch
\* of buf[:n]
PumpRead ==
    /\ mpc = "pump"
    /\ mbuf # <<>> \/ mq # <<>>
    /\ LET r == TunnelRead(PumpBuf) IN
          /\ mbuf' = r.buf
          /\ mq' = r.q
          /\ mdisp' = mdisp \o PumpDispatch(r.out)
    /\ UNCHANGED <<mpc, msent, mframes, mout, notMux>>

\* the loop of wsConn.Write: one ws.send per wsWriteChunkSize bytes
RECURSIVE Chunked(_)
Chunked(p) ==
    IF p = <<>> THEN <<>>
    ELSE LET n == Min(Len(p), wsWriteChunkSize)
         IN <<SubSeq(p, 1, n)>> \o Chunked(SubSeq(p, n + 1, Len(p)))

\* sendHTTPResponse, sendTCPClose and the SSH-to-tunnel subtask: the frame
\* is written with fwd.tunnelConn.Write under fwd.wsMu
ForwarderWrites(frame) ==
    /\ mpc = "pump"
    /\ Len(mframes) < MaxWrites
    /\ mframes' = Append(mframes, frame)
    /\ mout' = mout \o Chunked(frame)
    /\ UNCHANGED <<mpc, mq, mbuf, msent, mdisp, notMux>>

\* the frames while there is something left to send or to write
RelayFramesNow == IF Len(msent) < MaxRelay THEN RelayFrames ELSE {}
WrittenFramesNow == IF Len(mframes) < MaxWrites THEN WrittenFrames ELSE {}

NextMux ==
    \/ \E f \in RelayFramesNow : RelaySends(f)
    \/ TunnelReadyDecode
    \/ PumpRead
    \/ \E frame \in WrittenFramesNow : ForwarderWrites(frame)

(***************************************************************************)
(* Host callbacks invoked from core tasks: onData from the stdout pump of  *)
(* a session, onBanner from sshConnect, onProgress from a transfer.  Each  *)
(* is called with js.Value.Invoke, which panics with a js.Error when the   *)
(* host function throws.                                                   *)
(***************************************************************************)
\* the core tasks of the model: the stdout pumps of two sessions, one
\* connect attempt and one upload
HostTasks == {"stdout1", "stdout2", "connect", "upload"}

\* the callback each task invokes
CallbackOf == [stdout1 |-> "onData", stdout2 |-> "onData", connect |-> "onBanner",
               upload |-> "onProgress"]

\* the invocations of one task in one run
MaxCallbacks == 2

IdleHost ==
    /\ cbpc = [t \in HostTasks |-> "none"]
    /\ cbcalls = [t \in HostTasks |-> 0]
    /\ cbexit = FALSE

\* the tasks are running
StartHost ==
    /\ cbpc = [t \in HostTasks |-> "running"]
    /\ cbcalls = [t \in HostTasks |-> 0]
    /\ cbexit = FALSE

\* the goroutine of the task has a deferred recover around the invocation:
\* none has (the goroutine of newPromise, the stdout goroutine of sshConnect)
Recovers(t) == FALSE

\* onData.Invoke, onBanner.Invoke, onProgress.Invoke: the host function runs
HostInvoke(t) ==
    /\ ~cbexit
    /\ cbpc[t] = "running"
    /\ cbcalls[t] < MaxCallbacks
    /\ cbpc' = [cbpc EXCEPT ![t] = "invoking"]
    /\ UNCHANGED <<cbcalls, cbexit, notHost>>

\* the host function returns
HostReturns(t) ==
    /\ ~cbexit
    /\ cbpc[t] = "invoking"
    /\ cbpc' = [cbpc EXCEPT ![t] = "running"]
    /\ cbcalls' = [cbcalls EXCEPT ![t] = @ + 1]
    /\ UNCHANGED <<cbexit, notHost>>

\* the host function throws: Invoke panics; a panic that no frame of the
\* goroutine recovers ends the Go program, and with it every task
HostThrows(t) ==
    /\ ~cbexit
    /\ cbpc[t] = "invoking"
    /\ IF Recovers(t)
       THEN /\ cbpc' = [cbpc EXCEPT ![t] = "running"]
            /\ cbcalls' = [cbcalls EXCEPT ![t] = @ + 1]
            /\ cbexit' = cbexit
       ELSE /\ cbpc' = [u \in HostTasks |-> "dead"]
            /\ cbexit' = TRUE
            /\ cbcalls' = cbcalls
    /\ UNCHANGED <<notHost>>

\* the task comes to its end: the stdout pump on a read error, connect and
\* the upload when their promise settles
HostTaskEnds(t) ==
    /\ ~cbexit
    /\ cbpc[t] = "running"
    /\ cbpc' = [cbpc EXCEPT ![t] = "returned"]
    /\ UNCHANGED <<cbcalls, cbexit, notHost>>

NextHost ==
    \/ \E t \in HostTasks : HostInvoke(t)
    \/ \E t \in HostTasks : HostReturns(t)
    \/ \E t \in HostTasks : HostThrows(t)
    \/ \E t \in HostTasks : HostTaskEnds(t)

(***************************************************************************)
(* A download stream on its way to the browser: the service worker's       *)
(* ReadableStream pulls through the page bridge, which calls streamPull    *)
(* and posts the result back; the worker enqueues the chunk or closes the  *)
(* stream.                                                                 *)
(***************************************************************************)
\* the longest remote file and transferChunkSize (64 KiB), in bytes of the model
MaxFile == 6
ChunkLen == 2

NoMessage == [data |-> 0, done |-> FALSE]

IdlePull ==
    /\ bpc = "none"
    /\ bfile = 0
    /\ bopen = FALSE
    /\ bmsg = NoMessage
    /\ bread = 0
    /\ bdeliv = 0

\* sftpDownloadStream has registered the stream and the browser has
\* requested its URL
StartPull ==
    /\ bpc = "idle"
    /\ bfile \in 0..MaxFile
    /\ bopen = TRUE
    /\ bmsg = NoMessage
    /\ bread = 0
    /\ bdeliv = 0

\* what state.file.Read(chunk) can return with left bytes left: n bytes and
\* whether an error came with them; no bytes come only with an error (EOF
\* included), EOF may come with the last bytes or in the call after them, and
\* another error may come at any point
ReadResults(left) ==
    {r \in [n : 0..Min(ChunkLen, left), err : BOOLEAN] : r.n = 0 => r.err}

\* the object streamPull returns for a read of n bytes: data 0 is null
PullResult(n, failed) ==
    IF n > 0 THEN [data |-> n, done |-> failed] ELSE [data |-> 0, done |-> TRUE]

\* the bridge (stream_helper.js): if (result.done || !result.data) it posts
\* {data: null, done: true}, else {data: buffer, done: false}
BridgeMessage(res) ==
    IF res.done \/ res.data = 0 THEN [data |-> 0, done |-> TRUE]
    ELSE [data |-> res.data, done |-> FALSE]

\* the ReadableStream's pull: pullFromMain posts gossh-stream-pull to the page
WorkerPull ==
    /\ bpc = "idle"
    /\ bpc' = "asked"
    /\ UNCHANGED <<bfile, bopen, bmsg, bread, bdeliv, notPull>>

\* the bridge's message handler: GoSSH._streamPull and port.postMessage
BridgePull ==
    /\ bpc = "asked"
    /\ bpc' = "answered"
    /\ IF ~bopen
       THEN /\ bmsg' = BridgeMessage(PullResult(0, TRUE))
            /\ UNCHANGED <<bfile, bopen, bread>>
       ELSE \E r \in ReadResults(bfile) :
               /\ bfile' = bfile - r.n
               /\ bread' = bread + r.n
               /\ bopen' = ~r.err
               /\ bmsg' = BridgeMessage(PullResult(r.n, r.err))
    /\ UNCHANGED <<bdeliv, notPull>>

\* the worker's pull continues: controller.close() or controller.enqueue
WorkerReceive ==
    /\ bpc = "answered"
    /\ IF bmsg.done \/ bmsg.data = 0
       THEN /\ bpc' = "closed"
            /\ bdeliv' = bdeliv
       ELSE /\ bpc' = "idle"
            /\ bdeliv' = bdeliv + bmsg.data
    /\ bmsg' = NoMessage
    /\ UNCHANGED <<bfile, bopen, bread, notPull>>

NextPull ==
    \/ WorkerPull
    \/ BridgePull
    \/ WorkerReceive

IdleY == IdlePath /\ IdleRm /\ IdleAwait /\ IdleFrame /\ IdleAuth /\ IdleClose /\ IdleKa /\ IdleOpen

\* the parts of the library modelled after the first four
IdleX == IdleHttp /\ IdleUp /\ IdleDl /\ IdleXfer

\* the parts of the library modelled last
IdleZ == IdleMux /\ IdleHost /\ IdlePull

IdleLib == IdleTcp /\ IdleX /\ IdleY /\ IdleZ

(***************************************************************************)
(* The specifications: each starts one part of the library and leaves the  *)
(* others idle.                                                            *)
(***************************************************************************)
InitWS == IdleWS /\ IdleConn /\ IdleSess /\ IdleFwd /\ IdleLib

SpecWS == InitWS /\ [][NextWS]_vars

InitConn == StartConn /\ IdleWS /\ IdleSess /\ IdleFwd /\ IdleLib

SpecConn == InitConn /\ [][NextConn]_vars

InitSess == StartSess /\ IdleWS /\ IdleConn /\ IdleFwd /\ IdleLib

SpecSess == InitSess /\ [][NextSess]_vars

InitFwd == IdleFwd /\ IdleWS /\ IdleConn /\ IdleSess /\ IdleLib

SpecFwd == InitFwd /\ [][NextFwd]_vars

InitTcp == IdleWS /\ IdleConn /\ IdleSess /\ IdleFwd /\ IdleTcp /\ IdleX /\ IdleY /\ IdleZ

SpecTcp == InitTcp /\ [][NextTcp]_vars

\* the steps of the forward in the runs whose progress is examined: one
\* binary frame less than MaxFrames arrives
NextTcpLive == NextTcp /\ nextSeq' <= MaxFrames

\* every task that can run does run in the end: a dial returns (it has a
\* deadline), a subtask at a ready select or a returned call goes on
SpecTcpLive ==
    /\ InitTcp
    /\ [][NextTcpLive]_vars
    /\ \A h \in TcpHandlers :
          /\ WF_vars(TcpDialled(h))
          /\ WF_vars(ConsumerWritten(h))
          /\ WF_vars(ConsumerCancelled(h))
          /\ WF_vars(ReaderEnd(h))
          /\ WF_vars(HandlerCancelled(h))
          /\ WF_vars(TcpHandlerReturn(h))

\* a forward with one connection open: handleTCPOpen has dialled for connID
\* "a" and started its subtasks, and the Proxy -> SSH subtask has received a
\* first payload and is in channel.Write
StartTcpActive ==
    /\ tcpChans = [c \in Ids |-> IF c = "a" THEN 1 ELSE 0]
    /\ tpc = [h \in TcpHandlers |-> IF h = 1 THEN "open" ELSE "free"]
    /\ tconn = [h \in TcpHandlers |-> IF h = 1 THEN "a" ELSE ""]
    /\ inCh = [h \in TcpHandlers |-> <<>>]
    /\ cons = [h \in TcpHandlers |-> IF h = 1 THEN "writing" ELSE "none"]
    /\ cdata = [h \in TcpHandlers |-> IF h = 1 THEN [conn |-> "a", n |-> 0]
                                                ELSE NoPayload]
    /\ rdr = [h \in TcpHandlers |-> IF h = 1 THEN "running" ELSE "none"]
    /\ chanSt = [h \in TcpHandlers |-> IF h = 1 THEN "open" ELSE "none"]
    /\ tpump = "reading"
    /\ tpend = [h |-> 0, data |-> NoPayload]
    /\ tctx = FALSE
    /\ tunnelSt = "open"
    /\ tstored = TRUE
    /\ cleanupOnce = "fresh"
    /\ cleanupRuns = 0
    /\ cleanedBy = "none"
    /\ nextSeq = 1
    /\ sshOut = [h \in TcpHandlers |-> NoPayload]

InitTcpActive == IdleWS /\ IdleConn /\ IdleSess /\ IdleFwd /\ StartTcpActive /\ IdleX /\ IdleY /\ IdleZ

\* the forward while it stays active: nothing cancels fwd.ctx and the pump's
\* Read does not fail
NextTcpActive ==
    \/ \E c \in Ids : TcpOpen(c)
    \/ \E h \in TcpHandlers : TcpDialled(h)
    \/ \E c \in Ids : BinaryFrame(c)
    \/ PumpSend
    \/ \E h \in TcpHandlers : ConsumerTake(h)
    \/ \E h \in TcpHandlers : ConsumerWritten(h)
    \/ \E h \in TcpHandlers : ReaderEnd(h)
    \/ \E h \in TcpHandlers : SshChannelEnds(h)
    \/ \E h \in TcpHandlers : TcpHandlerReturn(h)

\* every task of the forward that can run does run in the end: a dial
\* returns, a subtask whose queue holds a payload receives it, a call that
\* has returned is followed up, the pump's waiting send goes through once
\* its queue has room, a handler whose subtasks are done returns.  The frames
\* of the relay and the end of an SSH channel are not owed by anyone.
SpecTcpFair ==
    /\ InitTcpActive
    /\ [][NextTcpActive]_vars
    /\ \A h \in TcpHandlers :
          /\ WF_vars(TcpDialled(h))
          /\ WF_vars(ConsumerTake(h))
          /\ WF_vars(ConsumerWritten(h))
          /\ WF_vars(ReaderEnd(h))
          /\ WF_vars(TcpHandlerReturn(h))
    /\ WF_vars(PumpSend)

InitHttp == IdleWS /\ IdleConn /\ IdleSess /\ IdleFwd /\ IdleTcp /\ IdleHttp /\ IdleUp /\ IdleDl /\ IdleXfer /\ IdleY /\ IdleZ

SpecHttp == InitHttp /\ [][NextHttp]_vars

InitUp == IdleWS /\ IdleConn /\ IdleSess /\ IdleFwd /\ IdleTcp /\ IdleHttp /\ IdleUp /\ IdleDl /\ IdleXfer /\ IdleY /\ IdleZ

SpecUp == InitUp /\ [][NextUp]_vars

InitDl == IdleWS /\ IdleConn /\ IdleSess /\ IdleFwd /\ IdleTcp /\ IdleHttp /\ IdleUp /\ IdleDl /\ IdleXfer /\ IdleY /\ IdleZ

SpecDl == InitDl /\ [][NextDl]_vars

InitXfer == IdleWS /\ IdleConn /\ IdleSess /\ IdleFwd /\ IdleTcp /\ IdleHttp /\ IdleUp /\ IdleDl /\ IdleXfer /\ IdleY /\ IdleZ

SpecXfer == InitXfer /\ [][NextXfer]_vars

InitPath == IdleWS /\ IdleConn /\ IdleSess /\ IdleFwd /\ IdleTcp /\ IdleX /\ IdlePath /\ IdleRm /\ IdleAwait /\ IdleFrame /\ IdleAuth /\ IdleClose /\ IdleKa /\ IdleOpen /\ IdleZ

SpecPath == InitPath /\ [][NextPath]_vars

InitRm == IdleWS /\ IdleConn /\ IdleSess /\ IdleFwd /\ IdleTcp /\ IdleX /\ IdlePath /\ IdleRm /\ IdleAwait /\ IdleFrame /\ IdleAuth /\ IdleClose /\ IdleKa /\ IdleOpen /\ IdleZ

SpecRm == InitRm /\ [][NextRm]_vars

InitAwait == IdleWS /\ IdleConn /\ IdleSess /\ IdleFwd /\ IdleTcp /\ IdleX /\ IdlePath /\ IdleRm /\ IdleAwait /\ IdleFrame /\ IdleAuth /\ IdleClose /\ IdleKa /\ IdleOpen /\ IdleZ

SpecAwait == InitAwait /\ [][NextAwait]_vars

InitFrame == IdleWS /\ IdleConn /\ IdleSess /\ IdleFwd /\ IdleTcp /\ IdleX /\ IdlePath /\ IdleRm /\ IdleAwait /\ IdleFrame /\ IdleAuth /\ IdleClose /\ IdleKa /\ IdleOpen /\ IdleZ

SpecFrame == InitFrame /\ [][NextFrame]_vars

InitAuth == IdleWS /\ IdleConn /\ IdleSess /\ IdleFwd /\ IdleTcp /\ IdleX /\ IdlePath /\ IdleRm /\ IdleAwait /\ IdleFrame /\ IdleAuth /\ IdleClose /\ IdleKa /\ IdleOpen /\ IdleZ

SpecAuth == InitAuth /\ [][NextAuth]_vars

InitClose == IdleWS /\ IdleConn /\ IdleSess /\ IdleFwd /\ IdleTcp /\ IdleX /\ IdlePath /\ IdleRm /\ IdleAwait /\ IdleFrame /\ IdleAuth /\ StartClose /\ IdleKa /\ IdleOpen /\ IdleZ

SpecClose == InitClose /\ [][NextClose]_vars

InitKa == IdleWS /\ IdleConn /\ IdleSess /\ IdleFwd /\ IdleTcp /\ IdleX /\ IdlePath /\ IdleRm /\ IdleAwait /\ IdleFrame /\ IdleAuth /\ IdleClose /\ IdleKa /\ IdleOpen /\ IdleZ

SpecKa == InitKa /\ [][NextKa]_vars

InitOpen == IdleWS /\ IdleConn /\ IdleSess /\ IdleFwd /\ IdleTcp /\ IdleX /\ IdlePath /\ IdleRm /\ IdleAwait /\ IdleFrame /\ IdleAuth /\ IdleClose /\ IdleKa /\ IdleOpen /\ IdleZ

SpecOpen == InitOpen /\ [][NextOpen]_vars

InitMux == IdleWS /\ IdleConn /\ IdleSess /\ IdleFwd /\ IdleTcp /\ IdleX /\ IdleY /\ StartMux /\ IdleHost /\ IdlePull

SpecMux == InitMux /\ [][NextMux]_vars

InitHost == IdleWS /\ IdleConn /\ IdleSess /\ IdleFwd /\ IdleTcp /\ IdleX /\ IdleY /\ IdleMux /\ StartHost /\ IdlePull

SpecHost == InitHost /\ [][NextHost]_vars

InitPull == IdleWS /\ IdleConn /\ IdleSess /\ IdleFwd /\ IdleTcp /\ IdleX /\ IdleY /\ IdleMux /\ IdleHost /\ StartPull

SpecPull == InitPull /\ [][NextPull]_vars

(***************************************************************************)
(* Properties of the WebSocket stream adapter.                             *)
(***************************************************************************)
AdapterErrors == {"closed", "dialFailed", "frameLarge", "backpress"}

\* C5: the bytes returned by successive reads are a prefix of the bytes of
\* the messages in arrival order (the peer's bytes are numbered in sending
\* order, so the k bytes read so far must be the bytes 1..k), and no read
\* returns more bytes than its buffer holds.
C5_ReadIsPrefixOfArrivals ==
    /\ \A i \in 1..Len(readOut) : readOut[i] = i
    /\ lastRead.valid => Len(lastRead.bytes) <= lastRead.p

\* what Read does guarantee: the bytes it has returned, the leftover bytes
\* and the queued messages are consecutive and in sending order
ReadKeepsQueueOrder ==
    LET all == readOut \o buf \o rdata \o Flatten(readCh)
    IN \A i, j \in 1..Len(all) : i < j => all[i] < all[j]

C5_GapRead ==
    /\ lastRead.valid /\ lastRead.err = "nil"
    /\ \E i \in 1..Len(readOut) : readOut[i] # i

\* C6 as stated: Close is idempotent and every read issued after a Close
\* has returned yields EOF.
C6_ReadAfterCloseIsEOF ==
    lastRead.valid /\ lastRead.afterClose => lastRead.err = "EOF"

\* a call of Close made after a call of Close has returned changes nothing
LaterCloseChangesNothing ==
    \A c \in Closers :
        (closeReturned /\ cpc[c] = "idle" /\ cpc'[c] = "done")
            => UNCHANGED <<err, closed, ctxDone, readyState, readCh, buf, released,
                          rpc>>

\* a read issued after a Close has returned takes nothing from the queue: it
\* returns leftover bytes of a partially copied message, or no bytes and the
\* sticky error, which is never EOF
ReadAfterCloseIsSticky ==
    lastRead.valid /\ lastRead.afterClose =>
        \/ lastRead.leftover /\ lastRead.err = "nil"
        \/ /\ lastRead.bytes = <<>>
           /\ lastRead.err = err
           /\ lastRead.err \in AdapterErrors

\* C6 (amended): Close is idempotent, and every read issued after a Close
\* has returned drains at most the leftover bytes and then fails with the
\* sticky error (connection closed, or the error recorded before), not EOF.
C6_CloseIdempotentReadsSticky ==
    /\ [][LaterCloseChangesNothing]_vars
    /\ [](ReadAfterCloseIsSticky)

C6_Witness ==
    /\ \A c \in Closers : cpc[c] = "done"
    /\ lastRead.valid /\ lastRead.afterClose
    /\ lastRead.err = "closed"

\* an oversized frame is never enqueued and none of its bytes is ever read
OversizedNeverQueued ==
    /\ \A i \in 1..Len(readCh) : Len(readCh[i]) <= wsMaxMessageSize
    /\ Len(rdata) <= wsMaxMessageSize
    /\ \A i \in 1..Len(readOut) : readOut[i] \notin bigBytes
    /\ \A i \in 1..Len(buf) : buf[i] \notin bigBytes

\* C7 as stated: an oversized frame is never enqueued; the adapter records
\* the frame-too-large error, cancels the stream and closes the socket, and
\* every later read returns the frame-too-large error or EOF.
C7_OversizedFrameAsStated ==
    /\ OversizedNeverQueued
    /\ bigSeen => err = "frameLarge" /\ ctxDone /\ readyState \notin {0, 1}
    /\ lastRead.valid /\ lastRead.afterBig => lastRead.err \in {"frameLarge", "EOF"}

\* C7 (amended): an oversized frame is never enqueued; the adapter records
\* the frame-too-large error, cancels the stream and closes the socket; a
\* read issued later first returns the leftover bytes of an earlier,
\* partially copied message and then fails with the frame-too-large error;
\* it never returns bytes of the oversized frame, and never EOF.
C7_OversizedFrameSticky ==
    /\ OversizedNeverQueued
    /\ bigSeen => /\ err = "frameLarge"
                  /\ ctxDone
                  /\ readyState \notin {0, 1}
    /\ lastRead.valid /\ lastRead.afterBig =>
          \/ lastRead.leftover /\ lastRead.err = "nil"
          \/ /\ lastRead.bytes = <<>>
             /\ lastRead.err = "frameLarge"

C7_Witness ==
    /\ bigSeen
    /\ lastRead.valid /\ lastRead.afterBig
    /\ lastRead.err = "frameLarge"

\* C8: a frame that arrives while readCh is full is not discarded silently:
\* the stream is then in error (the overflow error if it was healthy),
\* cancelled, and its socket closing.
C8_FullQueueIsAnError ==
    fullSeen.choice # "none" =>
        /\ err # "nil"
        /\ fullSeen.errBefore = "nil" => err = "backpress"
        /\ ctxDone
        /\ readyState \notin {0, 1}

C8_OverflowRecorded ==
    fullSeen.choice = "default" /\ err = "backpress"

(***************************************************************************)
(* Properties of sshConnect.                                               *)
(***************************************************************************)
\* C3: a config with no callable onHostKey and without allowInsecureHostKey
\* makes connect fail before a WebSocket is opened, and no host key is
\* accepted unchecked unless allowInsecureHostKey is true.
C3_NoCallbackFailsBeforeSocket ==
    /\ (~cfg.onHostKey /\ ~cfg.allowInsecureHostKey) =>
          /\ sock = "none"
          /\ result # "resolved"
    /\ hk["final"].insecure => cfg.allowInsecureHostKey

\* C4: with onHostKey supplied the key of a host is accepted only when the
\* promise resolved to true; when it resolved to false, was rejected or did
\* not settle in time, connect has rejected, the WebSocket of the attempt is
\* closed and no session is registered.
C4_HostKeyAcceptedOnlyOnTrue ==
    /\ \A h \in Hosts :
          /\ (hk[h].asked /\ hk[h].accepted) => hk[h].outcome = "true"
          /\ (hk[h].asked /\ hk[h].outcome \in {"false", "reject", "timeout"}) =>
                /\ result = "rejected"
                /\ sock = "closed"
                /\ ~stored
                /\ sshClient = "none"
    /\ (cfg.onHostKey /\ hk["final"].accepted) =>
          hk["final"].asked /\ hk["final"].outcome = "true"
    /\ (cfg.onHostKey /\ stored) => hk["final"].outcome = "true"

C4_Witness ==
    /\ cfg.onHostKey
    /\ hk["final"].asked
    /\ hk["final"].outcome = "false"
    /\ result = "rejected"
    /\ sock = "closed"
    /\ ~stored

\* C9: a WebSocket exists only for a URL that parseWebSocketURL accepts:
\* scheme wss, or scheme ws with the opt-in.
C9_SocketOnlyForValidatedURL ==
    sock # "none" => parseWebSocketURL(cfg.proxyUrl, cfg.allowInsecureWS) = "ok"

(***************************************************************************)
(* Properties of session.close and the registries.                         *)
(***************************************************************************)
\* some call of sess.close has returned
CloseHasReturned(s) == \E c \in Callers : callpc[s][c] = "returned"

\* C1: the body of close runs at most once whatever the number of callers,
\* and once a call of close has returned it has run exactly once and has
\* invoked the host's onClose exactly once.
C1_TeardownExactlyOnce ==
    \A s \in Sessions :
        /\ teardownRuns[s] <= 1
        /\ onCloseCalls[s] <= 1
        /\ CloseHasReturned(s) =>
              /\ teardownRuns[s] = 1
              /\ onCloseCalls[s] = (IF hasOnClose[s] THEN 1 ELSE 0)

C1_Witness ==
    \E s \in Sessions :
        /\ hasOnClose[s]
        /\ \A c \in Callers : callpc[s][c] = "returned"
        /\ onCloseCalls[s] = 1

\* C2: a session that is alive is in sessionStore, and once close has
\* returned the session is in no registry: not in sessionStore, and no entry
\* of sftpStore or forwardStore is bound to it.
C2_RegistriesClearAfterClose ==
    \A s \in Sessions :
        /\ (sstate[s] = "live" /\ closeOnce[s] = "fresh") => s \in sessionStore
        /\ CloseHasReturned(s) =>
              /\ s \notin sessionStore
              /\ BoundTo(sftpStore, s) = {}
              /\ BoundTo(forwardStore, s) = {}

(***************************************************************************)
(* Properties of the forward's message pump.                               *)
(***************************************************************************)
\* C10: at most maxConcurrentHandlers handler tasks run at any moment, and
\* each of them holds one slot of fwd.sem.
C10_HandlersBounded ==
    /\ Cardinality(Running) <= maxConcurrentHandlers
    /\ sem = Cardinality(Running)

C10_Witness ==
    /\ Cardinality(Running) = maxConcurrentHandlers
    /\ sent503 > 0
    /\ sentTcpClose > 0

\* what the pump has to put on the tunnel for a refused frame
Refusal(type, id) ==
    [type |-> IF type = "http_request" THEN "http_response" ELSE "tcp_close",
     id |-> id,
     status |-> IF type = "http_request" THEN 503 ELSE 0]

\* C11: an http_request or tcp_open that arrives while every permit of
\* fwd.sem is held starts no handler and takes no permit; the pump itself
\* takes up the 503 http_response with the request's id, or the tcp_close
\* with the connId, and keeps that frame until it has written it under
\* wsMu.  The pump can take the frame whenever it is at the head of its loop:
\* it does not wait for a permit.
C11_RefusedFrameAnsweredByPump ==
    /\ [][\A type \in {"http_request", "tcp_open"} : \A id \in Ids :
            (sem = maxConcurrentHandlers /\ Dispatch(type, id))
               => /\ hpc' = hpc
                  /\ sem' = sem
                  /\ pending'[0] = Refusal(type, id)]_vars
    /\ [][pending[0] # NoFrame
            => \/ pending'[0] = pending[0]
               \/ /\ 0 \in wsMu
                  /\ pending'[0] = NoFrame
                  /\ sent503' = sent503 + (IF pending[0].status = 503 THEN 1 ELSE 0)
                  /\ sentTcpClose' = sentTcpClose
                                     + (IF pending[0].type = "tcp_close" THEN 1 ELSE 0)]_vars
    /\ [](\A id \in Ids :
            (pump = "running" /\ pending[0] = NoFrame /\ sem = maxConcurrentHandlers)
               => /\ sent503 < MaxRefused => ENABLED Dispatch("http_request", id)
                  /\ sentTcpClose < MaxRefused => ENABLED Dispatch("tcp_open", id))

C11_Witness ==
    /\ sem = maxConcurrentHandlers
    /\ sent503 > 0
    /\ pending[0] = [type |-> "tcp_close", id |-> "b", status |-> 0]
    /\ 0 \in wsMu

\* C12: at most one task is between wsMu.Lock() and wsMu.Unlock(), that is,
\* inside tunnelConn.Write, at any moment: the frames of two writers are
\* never on the tunnel at the same time.
C12_TunnelWritesExclusive == Cardinality(wsMu) <= 1

C12_Witness ==
    \E w \in wsMu : \E v \in Writers :
        /\ v # w
        /\ v \notin wsMu
        /\ pending[v] # NoFrame

(***************************************************************************)
(* Properties of the TCP connections of a forward.                         *)
(***************************************************************************)
\* the handlers that have registered a queue and not yet returned
LiveFor(c) == {h \in TcpHandlers : tpc[h] = "open" /\ tconn[h] = c}

\* C13: every entry of fwd.tcpChans belongs to exactly one live TCP handler,
\* the one whose queue is stored in the entry.
C13_EntryHasOneLiveHandler ==
    \A c \in Ids : tcpChans[c] # 0 => LiveFor(c) = {tcpChans[c]}

\* the queue stored in an entry is the queue of a handler that is still live
EntryOwnerIsLive ==
    \A c \in Ids : tcpChans[c] # 0 => tcpChans[c] \in LiveFor(c)

\* C14 as stated: once cleanup has run the token is cancelled, the tunnel is
\* closed, no queue is left in fwd.tcpChans, the forward is out of
\* forwardStore, and the body has run once.
C14_CleanupRemovesQueues ==
    cleanupOnce = "done"
       => /\ tctx
          /\ tunnelSt = "closed"
          /\ ~tstored
          /\ cleanupRuns = 1
          /\ \A c \in Ids : tcpChans[c] = 0

\* C14, amended: once cleanup has run the token is cancelled, the tunnel is
\* closed, the forward is out of forwardStore and the body has run once; a
\* later call changes none of this.  A queue still in fwd.tcpChans belongs to
\* a handler that has not returned; a handler that returns removes the entry
\* of its connID, and in the end no entry is left.
C14_CleanupOnceQueuesLeftToHandlers ==
    /\ [](cleanupOnce = "done"
             => /\ tctx
                /\ tunnelSt = "closed"
                /\ ~tstored
                /\ cleanupRuns = 1
                /\ EntryOwnerIsLive)
    /\ [][cleanupOnce = "done"
             => /\ cleanupOnce' = "done"
                /\ tctx'
                /\ tunnelSt' = "closed"
                /\ ~tstored'
                /\ cleanupRuns' = cleanupRuns]_vars
    /\ [][\A h \in TcpHandlers :
             (tpc[h] = "open" /\ tpc'[h] # "open") => tcpChans'[tconn[h]] = 0]_vars
    /\ (cleanupOnce = "done") ~> (\A c \in Ids : tcpChans[c] = 0)

C14_Witness ==
    /\ cleanupOnce = "done"
    /\ cleanedBy = "stop"
    /\ tpump = "exited"
    /\ \E c \in Ids : tcpChans[c] # 0

\* the payloads of one handler in the order they move: written to the SSH
\* channel, being written, queued
Pipe(h) ==
    (IF sshOut[h] # NoPayload THEN <<sshOut[h]>> ELSE <<>>)
    \o (IF cons[h] = "writing" THEN <<cdata[h]>> ELSE <<>>)
    \o inCh[h]

IsHopByHop(name) == \E h \in HopByHop : FoldName(h) = FoldName(name)

\* C16: the request written to the SSH channel contains no inbound header
\* whose name is, letter case ignored, one of the nine hop-by-hop names, and
\* no inbound header whose name or value contains CR or LF; the only header
\* named Host (letter case ignored) is the one of the configured address.
C16_NoHopByHopNoInjection ==
    rqpc = "written" =>
        \A i \in 1..Len(chanReq) :
            /\ chanReq[i].inbound =>
                  /\ ~IsHopByHop(chanReq[i].name)
                  /\ ~containsCRLF(chanReq[i].name)
                  /\ ~containsCRLF(chanReq[i].value)
            /\ FoldName(chanReq[i].name) = FoldName(HostName) =>
                  /\ i = 1
                  /\ chanReq[i].value = RemoteAddr

\* what the header loop does guarantee: the names spelled as the switch
\* spells them and every name or value with a line break are left out
HeaderLoopExact ==
    rqpc = "written" =>
        \A i \in 1..Len(chanReq) :
            chanReq[i].inbound =>
                /\ chanReq[i].name \notin HopByHop
                /\ ~containsCRLF(chanReq[i].name)
                /\ ~containsCRLF(chanReq[i].value)

(***************************************************************************)
(* Properties of the streaming upload.                                     *)
(***************************************************************************)
\* C17: the chunk queue never holds more than its capacity; a write that
\* finds the queue full does not get its chunk in before the writer task has
\* taken one out; end resolves only after the writer task has finished; and
\* when end resolves (no write error occurred) the written count equals the
\* sum of the sizes of the chunks accepted.
C17_QueueBoundedEndAfterWriter ==
    /\ [](Len(dataCh) <= uploadChanSize)
    /\ [](\A w \in UpCalls :
            (upc[w] = "sending" /\ Len(dataCh) = uploadChanSize /\ ~dataClosed)
                => ~ENABLED WriteSend(w))
    /\ [][\A w \in UpCalls :
            (upc[w] = "sending" /\ upc'[w] = "sent")
                => (Len(dataCh) < uploadChanSize /\ dataCh' = Append(dataCh, usize[w]))]_vars
    /\ [](epc = "resolved" => (wrpc = "done" /\ doneCh /\ dataCh = <<>>))
    /\ [](epc = "resolved" => (~writeErr /\ written = accepted))

\* all the write calls went through, one of them after it had found the
\* queue full, and end has resolved
C17_Witness ==
    /\ epc = "resolved"
    /\ waited # {}
    /\ \A w \in UpCalls : upc[w] = "resolved"
    /\ written = accepted
    /\ written > uploadChanSize

(***************************************************************************)
(* Properties of the streaming download.                                   *)
(***************************************************************************)
\* C18: a pull or a cancel on a registered stream that presents another
\* token than the stream's leaves the reader open, the done signal unraised
\* and the stream in the registry, and the pull returns {data: null,
\* done: true}.
C18_WrongTokenLeavesStream ==
    [][(dlStored /\ (streamPull("other") \/ streamCancel("other")))
          => /\ fileSt' = fileSt
             /\ doneSig' = doneSig
             /\ dlStored' = dlStored
             /\ streamPull("other") => lastPull' = [data |-> "null", done |-> TRUE]]_vars

\* C19: a cancel with the matching token on a registered stream closes the
\* reader, raises done and removes the stream; a cancel of a stream that is
\* no longer registered changes nothing; done is raised at most once however
\* cancel, a pull that reaches the end and the timeout interleave.
C19_CancelOnceDoneOnce ==
    /\ [][(dlStored /\ streamCancel("match"))
             => (fileSt' = "closed" /\ doneSig' /\ ~dlStored')]_vars
    /\ [][(~dlStored /\ (\E token \in Tokens : streamCancel(token)))
             => UNCHANGED <<dlStored, fileSt, remaining, doneSig, dlOnce, dpc,
                            lastPull, doneCalls, doneRaises>>]_vars
    /\ [](doneRaises <= 1)
    /\ [](doneSig <=> doneRaises = 1)

\* two cancels and a further closeDone (a pull at the end or the timeout)
\* have happened, and done was raised once
C19_Witness ==
    /\ cancels = 2
    /\ doneCalls >= 2
    /\ doneRaises = 1
    /\ doneSig
    /\ fileSt = "closed"
    /\ ~dlStored

(***************************************************************************)
(* Properties of the non-streaming transfers.                              *)
(***************************************************************************)
\* C20: a payload or remote file over the ceiling is rejected before any
\* work in proportion to it: an upload of it copies nothing into core
\* memory and creates no remote file, a download of it opens no remote file,
\* and neither goes on to move data.
C20_CeilingBeforeWork ==
    xsize > maxDownloadSize =>
        /\ xcopied = 0
        /\ ~xcreated
        /\ ~xopened
        /\ xpc \in {"entered", "rejected"}

\* what sftpDownload does guarantee: a remote file over the ceiling is
\* rejected with the size error before it is opened
DownloadCeiling ==
    (xop = "download" /\ xsize > maxDownloadSize) =>
        (~xopened /\ xmoved = 0 /\ xpc = "rejected" /\ xerr = "tooLarge")

(***************************************************************************)
(* Properties of the path-taking SFTP operations.                          *)
(***************************************************************************)
\* a path fails validation: trimmed, it is empty or holds NUL, CR or LF, or
\* in strict mode it holds a backslash or a ".." segment or its canonical
\* form does not start with "/"
FailsValidation(q, strict) ==
    LET t == TrimPath(q)
    IN \/ t = <<>>
       \/ \E i \in 1..Len(t) : t[i] \in {NUL, CR, LF}
       \/ /\ strict
          /\ \/ \E i \in 1..Len(t) : t[i] = BS
             \/ \E i \in 1..Len(Split(t)) : Split(t)[i] = DotDot
             \/ Clean(t)[1] # "/"

\* C21: no path-taking operation sends a request to the remote for a path
\* that fails validation.
C21_NoRequestForInvalidPath ==
    fspc = "sent" => \A i \in 1..Len(fsargs) : ~FailsValidation(fsargs[i], fsstrict)

\* what the operations of sftp.go do guarantee: a request goes out only for
\* paths that pass validation, and it carries the validated paths
CheckedOpsValidate ==
    (fspc = "sent" /\ fsop \in CheckedOps) =>
        \A i \in 1..Len(fsargs) :
            /\ ~FailsValidation(fsargs[i], fsstrict)
            /\ fsreq[i] = validateSFTPPath(fsargs[i], fsstrict).path

(***************************************************************************)
(* Properties of the recursive remove.                                     *)
(***************************************************************************)
\* the entries reachable from n through real directories only
RECURSIVE Reach(_, _)
Reach(kind, n) ==
    IF kind[n] = "dir"
    THEN {n} \cup UNION {Reach(kind, ch) : ch \in Children(n)}
    ELSE {n}

DeletedSet == {rmdeleted[i] : i \in 1..Len(rmdeleted)}

OutcomeOf(w, ev) ==
    CASE ev = "resolve" -> promise[w]
      [] ev = "reject" -> "error"
      [] ev = "deadline" -> "timeout"

\* after a wait has returned nothing reaches the core any more: its
\* callbacks are released, a late reaction of the promise runs through
\* without touching the channels or the result, and it is never held up
NothingAfterReturn ==
    /\ [](\A w \in Waits : apc[w] = "returned" => ~funcs[w])
    /\ [][\A w \in Waits :
            (apc[w] = "returned" /\ PromiseReaction(w))
                => UNCHANGED <<apc, valCh, errCh, aout, funcs>>]_vars
    /\ [](\A w \in Waits :
            (apc[w] = "returned" /\ promise[w] # "pending" /\ ~reacted[w])
                => ENABLED PromiseReaction(w))
    /\ [][\A w \in Waits :
            apc[w] = "returned" => (apc'[w] = "returned" /\ aout'[w] = aout[w])]_vars

\* C23 as stated: the wait returns the outcome of whichever happened first,
\* the resolution, the rejection or the end of the deadline, and after its
\* return nothing reaches the core.
C23_FirstEventDecides ==
    /\ [](\A w \in Waits : apc[w] = "returned" => aout[w] = OutcomeOf(w, events[w][1]))
    /\ NothingAfterReturn

\* C23: the wait returns one outcome, and only one whose event has happened
\* and has reached the waiting task: a value only if the promise resolved
\* and its reaction ran, the host error only if it rejected and its
\* reaction ran, the timeout only if the deadline has passed; when just one
\* of them is the case, that one is returned; after its return nothing
\* reaches the core.
C23_OneReadyOutcome ==
    /\ [][\A w \in Waits : AwaitReturn(w) =>
            /\ aout'[w] \in {"true", "false", "error", "timeout"}
            /\ aout'[w] \in {"true", "false"} => (promise[w] = aout'[w] /\ reacted[w])
            /\ aout'[w] = "error" => (promise[w] = "rejected" /\ reacted[w])
            /\ aout'[w] = "timeout" => actx[w]
            /\ (actx[w] /\ ~reacted[w]) => aout'[w] = "timeout"
            /\ (reacted[w] /\ ~actx[w]) =>
                  aout'[w] = OutcomeOf(w, IF promise[w] = "rejected" THEN "reject" ELSE "resolve")]_vars
    /\ [](\A w \in Waits :
            (apc[w] = "waiting" /\ ~actx[w] /\ ~reacted[w]) => ~ENABLED AwaitReturn(w))
    /\ NothingAfterReturn

\* a wait returned the timeout and its promise was settled afterwards: the
\* reaction found the callbacks released
C23_Witness ==
    \E w \in Waits :
        /\ apc[w] = "returned"
        /\ aout[w] = "timeout"
        /\ events[w] = <<"deadline", "resolve">>
        /\ reacted[w]
        /\ lateCalls[w] = 1
        /\ valCh[w] = <<>>

(***************************************************************************)
(* Properties of the binary frame codec.                                   *)
(***************************************************************************)
\* the frame has a whole header whose length L is between 1 and the
\* longest connection id, and holds the L bytes of the connection id
WellFormed(data) ==
    /\ Len(data) >= 4
    /\ HeaderValue(data) >= 1
    /\ HeaderValue(data) <= maxConnIDLen
    /\ 4 + HeaderValue(data) <= Len(data)

\* C24: parseBinaryFrame returns a non-empty connId exactly for a
\* well-formed frame, and then the connId is the L bytes after the header
\* and the payload the rest; for every other frame it returns the empty
\* connId and no payload; it returns for every frame.
C24_ParseAcceptsExactlyWellFormed ==
    /\ frpc = "pending" => ENABLED FrameParsed
    /\ frpc = "parsed" =>
          /\ frout.connID # <<>> <=> WellFormed(frbuf)
          /\ WellFormed(frbuf) =>
                /\ frout.connID = [i \in 1..HeaderValue(frbuf) |-> frbuf[4 + i]]
                /\ frout.payload =
                      [i \in 1..(Len(frbuf) - 4 - HeaderValue(frbuf)) |->
                          frbuf[4 + HeaderValue(frbuf) + i]]
          /\ ~WellFormed(frbuf) => frout = NoResult

\* a frame whose header announces one byte more than the longest
\* connection id, with all those bytes present, has been refused
C24_Witness ==
    /\ frpc = "parsed"
    /\ ~frsrc.built
    /\ Len(frbuf) = 4 + maxConnIDLen + 1
    /\ HeaderValue(frbuf) = maxConnIDLen + 1
    /\ frout = NoResult

\* C25: parsing a frame that the builder made of a connId of 1 to the
\* longest length and of any payload, the empty one too, returns that
\* connId and that payload.
C25_BuildThenParseRoundTrip ==
    (frpc = "parsed" /\ frsrc.built) =>
        /\ frout.connID = frsrc.connID
        /\ frout.payload = frsrc.payload

\* a frame built of the longest connection id and the empty payload has
\* been parsed
C25_Witness ==
    /\ frpc = "parsed"
    /\ frsrc.built
    /\ Len(frsrc.connID) = maxConnIDLen
    /\ frsrc.payload = <<>>
    /\ frout.connID = frsrc.connID

(***************************************************************************)
(* Properties of the validation of the authentication method.              *)
(***************************************************************************)
\* C26: a connect with authMethod agent whose validation ran while the
\* keyring held no key has been rejected with the validation error, and
\* no WebSocket was opened for it.
C26_EmptyAgentRejectedBeforeSocket ==
    (aucfg.authMethod = "agent" /\ aupc \in {"dial", "kex", "done"} /\ auring = {}) =>
        /\ aupc = "done"
        /\ auerr = "no agent keys loaded"
        /\ ausock = "none"

\* a password or key method without its secret, a key that does not parse
\* and an unknown method are rejected before a WebSocket is opened
SecretsValidatedBeforeSocket ==
    (aupc \in {"dial", "kex", "done"}
        /\ (aucfg.authMethod \notin {"password", "key", "agent"}
            \/ (aucfg.authMethod \in {"password", "key"} /\ aucfg.secret = "")
            \/ (aucfg.authMethod = "key" /\ aucfg.secret = "bad"))) =>
        /\ aupc = "done"
        /\ auerr # ""
        /\ ausock = "none"

(***************************************************************************)
(* Properties of the error paths of connect.                               *)
(***************************************************************************)
\* C29: when connect has rejected, nothing it opened is still open: not the
\* WebSocket, not the SSH client or its session, not the jump SSH client or
\* the channel through it; and no session is in the registry.
C29_FailedConnectClosesAll ==
    (kpc = "done" /\ result = "rejected") =>
        /\ sock # "open"
        /\ sshClient # "open"
        /\ sshSession # "open"
        /\ jumpClient # "open"
        /\ netCh # "open"
        /\ ~stored

\* on a direct connect, and on the jump path up to the handshake with the
\* final host, a rejected connect leaves nothing open
DirectFailureClosesAll ==
    (kpc = "done" /\ result = "rejected" /\ (~cfg.hasJump \/ sshClient = "none")) =>
        /\ sock # "open"
        /\ sshClient # "open"
        /\ sshSession # "open"
        /\ jumpClient # "open"
        /\ netCh # "open"
        /\ ~stored

(***************************************************************************)
(* Properties of the order of the steps of session.close.                  *)
(***************************************************************************)
\* the steps of close themselves are in the order of the source: the token
\* is cancelled before anything else, the resources are closed by the
\* teardown only, the session leaves sessionStore after its resources are
\* closed, and onClose comes after all of that
TeardownStepsInOrder ==
    \A s \in Sessions :
        /\ closeOnce[s] # "fresh" => sctx[s]
        /\ sclient[s] = "closed" => closeOnce[s] # "fresh"
        /\ (sstate[s] = "live" /\ closeOnce[s] # "fresh" /\ s \notin sessionStore) =>
              sclient[s] = "closed"
        /\ onCloseCalls[s] > 0 => (s \notin sessionStore /\ sclient[s] = "closed")

\* the two Ranges close every SFTP client and clean up every forward of the
\* session that they find in the registries
RangesCloseWhatTheyFind ==
    [][\A s \in Sessions, c \in Callers :
          /\ (callpc[s][c] = "idle" /\ callpc'[s][c] = "forwards") =>
                \A e \in BoundTo(sftpStore, s) :
                    e \notin sftpStore' /\ sftpClient'[e.id] = "closed"
          /\ (callpc[s][c] = "forwards" /\ callpc'[s][c] = "resources") =>
                \A e \in BoundTo(forwardStore, s) : fwd'[e.id].cleaned]_vars

\* the fields closed in the middle of the teardown, and those of the jump
\* host
OwnResources == {"stdin", "sshSession", "sshClient", "conn"}
JumpResources == {"jumpClient", "jumpConn"}

\* the teardown has closed something, or has taken an entry off a registry
SomethingDone ==
    \/ \E r \in Resources : clres[r] = "closed"
    \/ \E f \in RegSftp : clsftp[f] # "-" /\ clclient[f] = "closed"
    \/ clclean # {}
    \/ ~clstored
    \/ clnotified > 0

\* C27: the teardown performs its steps in a fixed order.  The token is
\* cancelled before anything else is done; every SFTP client and every
\* forward registered for the session is closed before stdin, the
\* interactive channel, the SSH client and the byte stream are; the jump
\* resources are closed after those; the session id leaves the registry
\* after that and before onClose is invoked; and nothing follows onClose.
C27_TeardownInFixedOrder ==
    /\ SomethingDone => clctx
    /\ (\E r \in OwnResources : clres[r] = "closed") =>
          /\ \A f \in RegSftp : clsftp[f] # "s" /\ (clsftp[f] = "-" => clclient[f] = "closed")
          /\ \A t \in RegFwd : clfwd[t] # "s"
    /\ (\E r \in JumpResources : clres[r] = "closed") =>
          \A r \in OwnResources : clres[r] # "open"
    /\ ~clstored => \A r \in Resources : clres[r] # "open"
    /\ clnotified > 0 => ~clstored
    /\ clnotified > 0 => clpc = Len(CloseOrder) + 1

\* the teardown of a session on the jump path, with an SFTP client and a
\* forward of its own and another session's SFTP client registered, has
\* run to the end and has invoked onClose
C27_Witness ==
    /\ clpc = Len(CloseOrder) + 1
    /\ clsess.hasJump /\ clsess.hasOnClose
    /\ clnotified = 1
    /\ clres["jumpClient"] = "closed" /\ clres["stdin"] = "closed"
    /\ clclean = RegFwd
    /\ clclient["f1"] = "closed" /\ clsftp["f1"] = "-"
    /\ clsftp["f2"] = "other" /\ clclient["f2"] = "open"

(***************************************************************************)
(* Properties of the keepalive task.                                       *)
(***************************************************************************)
\* three requests in a row have failed
ThreeInARow ==
    \E i \in 1..(Len(kahist) - 2) : ~kahist[i] /\ ~kahist[i + 1] /\ ~kahist[i + 2]

\* the task calls close exactly when three requests in a row have failed,
\* at most once, and it is the task that closed the session only then
ClosesAtThreeInARow ==
    /\ kacalls <= 1
    /\ kacalls = 1 <=> ThreeInARow
    /\ kaclosedBy = "keepalive" => ThreeInARow
    /\ ThreeInARow => kapc = "returned"

\* C28 as stated: the task closes the session exactly when three requests
\* in a row have failed, and it issues no request once the session token
\* is cancelled.
C28_ThreeFailuresCloseStopOnCancel ==
    /\ ClosesAtThreeInARow
    /\ kalate = 0

\* C28: the task calls close exactly when three requests in a row have
\* failed; with the token cancelled and no tick waiting, its select
\* returns without a request; and once it has returned it issues no
\* request.
C28_ThreeFailuresCloseReturnOnCancel ==
    /\ []ClosesAtThreeInARow
    /\ [][(kapc = "select" /\ kadone /\ ~katick /\ kapc' # kapc) =>
             (kapc' = "returned" /\ kahist' = kahist)]_vars
    /\ [][kapc = "returned" => (kapc' = "returned" /\ kahist' = kahist)]_vars

\* two failures, a reply and two more failures have not closed the
\* session; another task has closed it, and the keepalive task has returned
\* on the cancelled token
C28_Witness ==
    /\ kahist = <<FALSE, FALSE, TRUE, FALSE, FALSE>>
    /\ kacalls = 0
    /\ failures = 2
    /\ kaclosedBy = "other"
    /\ kapc = "returned"

(***************************************************************************)
(* Properties of tcp_open and tcp_close.                                   *)
(***************************************************************************)
\* the handlers of connId c that have not returned
LiveHandlers(c) == {h \in Permits : opc[h] # "free" /\ oconn[h] = c}

\* C30: every tcp_open for a connId is answered by exactly one tcp_close
\* for that connId, written or attempted: at once when no permit is free or
\* the dial fails, and otherwise when its handler returns; so the tcp_open
\* frames of a connId are those answered plus those whose handler is still
\* running, and the queue of a handler that has returned is not in the
\* connection map.
C30_OneCloseForEveryOpen ==
    /\ \A c \in ConnIDs : opens[c] = closes[c] + Cardinality(LiveHandlers(c))
    /\ \A c \in ConnIDs :
          omap[c] # 0 => (opc[omap[c]] = "wait" /\ oconn[omap[c]] = c)

\* four tcp_open frames for one connId have been answered, one of them
\* refused for want of a permit, the last after the tunnel was closed
C30_Witness ==
    /\ opens["a"] = MaxOpens
    /\ closes["a"] = MaxOpens
    /\ otunnel = "closed"
    /\ \A h \in Permits : opc[h] = "free"
    /\ omap["a"] = 0

(***************************************************************************)
(* The sticky write error of a streaming upload (SpecUp).                  *)
(***************************************************************************)
\* the outcome of a write or end call changes in this step
WriteSettles(w) == upc'[w] # upc[w]

\* C31: once the writer has recorded a write error it stays recorded; a
\* write that finds the upload fails with it, before the send or at the
\* re-check after it, and no write resolves; the end call that removes the
\* upload rejects with it; the writer never writes another chunk and the
\* written count stays as it is.  A write or end that no longer finds the
\* upload fails with the not-found error.
C31_StickyWriteError ==
    [][writeErr =>
         /\ writeErr'
         /\ written' = written
         /\ wrpc' # "writing"
         /\ \A w \in UpCalls :
               WriteSettles(w) =>
                  /\ upc[w] = "idle" => upc'[w] = IF upStored THEN "rejected"
                                                            ELSE "notfound"
                  /\ upc[w] = "sent" => upc'[w] = "rejected"
                  /\ upc'[w] # "resolved"
         /\ epc' # epc =>
               /\ epc = "waiting" => epc' = "rejected"
               /\ epc = "idle" => epc' = IF upStored THEN "waiting" ELSE "notfound"
               /\ epc' # "resolved"]_vars

\* the error was recorded with chunks still queued, a later write and the end
\* call failed with it, and the queued chunks never reached the file
C31_Witness ==
    /\ writeErr
    /\ wrpc = "done"
    /\ dataCh = <<>>
    /\ accepted > written + 2
    /\ \E w \in UpCalls : upc[w] = "rejected" /\ usize[w] > 0
    /\ epc = "rejected"
(***************************************************************************)
(* write against end and cancel on one streaming upload (SpecUp).          *)
(***************************************************************************)
\* C34: no chunk is sent on the chunk queue after the queue was closed; in
\* particular a write that found the queue full and was suspended in its
\* send never sends on the closed queue
C34_NoSendOnClosedQueue ==
    \A w \in UpCalls : ~(panicked /\ dataClosed /\ upc[w] = "sending" /\ w \in waited)

\* the queue is closed by the one call that removes the upload from the
\* registry, so it is closed at most once
QueueClosedAtMostOnce ==
    [][dataClosed' # dataClosed => (~dataClosed /\ upStored /\ ~upStored')]_vars
(***************************************************************************)
(* Release of the adapter's four js.Func (SpecWS).                         *)
(***************************************************************************)
\* C32: once a call of Close has returned the four callbacks are released,
\* also when the close event of the peer was handled before Close was called
C32_ReleasedWhenCloseReturned == closeReturned => released

\* the callbacks are released by the first call of Close that finds c.closed
\* unset and by nothing else, and a release is never undone or repeated
ReleasedByFirstClose ==
    [][released' # released =>
          /\ ~released /\ ~closed
          /\ \E c \in Closers : cpc[c] = "idle" /\ cpc'[c] = "done"]_vars
(***************************************************************************)
(* The receive queue at the close event of the peer (SpecWS).              *)
(***************************************************************************)
\* C39: when Read reports the connection-closed error after the peer closed
\* the socket, every message that was queued before the close event has
\* been read: the receive queue is empty
C39_QueueReadBeforeCloseError ==
    (lastRead.valid /\ lastRead.err = "closed" /\ ~closeReturned) => readCh = <<>>

\* the leftover bytes of a partially copied message are still served before
\* the error is reported
LeftoverServedBeforeError ==
    (lastRead.valid /\ lastRead.err # "nil") => buf = <<>>
(***************************************************************************)
(* Frames on the tunnel stream (SpecMux).                                  *)
(***************************************************************************)
\* C35: the frames the pump has dispatched are the frames the relay sent
\* after tunnel_ready, each once, whole and in order; once the pump has read
\* everything that arrived, every frame sent has been dispatched
C35_EveryMessageOneFrame ==
    /\ Len(mdisp) <= Len(msent)
    /\ \A i \in 1..Len(mdisp) : mdisp[i] = msent[i]
    /\ (mpc = "pump" /\ mq = <<>> /\ mbuf = <<>>) => mdisp = msent

\* a frame that is alone in the queue when the pump reads, and not longer
\* than the pump's buffer, is dispatched as it was sent
LoneFrameDispatched ==
    [][(mpc = "pump" /\ mbuf = <<>> /\ Len(mq) = 1 /\ Len(mq[1]) <= PumpBuf
          /\ mdisp = SubSeq(msent, 1, Len(msent) - 1) /\ mdisp' # mdisp)
       => mdisp' = msent]_vars

\* C36: every frame the forwarder wrote was handed to the WebSocket as
\* exactly one message, which is that frame
C36_EveryFrameOneMessage == mout = mframes
(***************************************************************************)
(* Progress of the TCP handlers and of the pump while the forward stays    *)
(* active (SpecTcpFair).                                                   *)
(***************************************************************************)
\* C37: a handler whose SSH channel has reached EOF or was closed returns
\* in the end (its permit is released, its queue removed, tcp_close sent),
\* unless the forward is cancelled first; no further frame is needed
C37_HandlerExitsAfterChannelEnd ==
    \A h \in TcpHandlers :
       (tpc[h] = "open" /\ chanSt[h] \in {"eof", "closed"}) ~> (tpc[h] # "open" \/ tctx)

\* C38: the pump does not wait for ever on the full queue of a connection
\* whose subtask has exited: it goes back to reading frames, unless the
\* forward is cancelled
C38_PumpNeverStuckOnOneQueue ==
    (tpump = "blocked" /\ cons[tpend.h] = "done"
        /\ Len(inCh[tpend.h]) >= tcpChanSize /\ ~tctx)
       ~> (tpump # "blocked" \/ tctx)
(***************************************************************************)
(* Errors thrown by host callbacks (SpecHost).                             *)
(***************************************************************************)
\* C33: a host callback that ends, whether it returns or throws, leaves the
\* task that invoked it running and every other task as it was
C33_CallbackErrorStaysInside ==
    [][\A t \in HostTasks :
          (cbpc[t] = "invoking" /\ cbpc'[t] # "invoking")
             => /\ cbpc'[t] = "running"
                /\ \A u \in HostTasks \ {t} : cbpc'[u] = cbpc[u]]_vars

\* a callback that returns leaves every other task as it was
CallbackReturnStaysInside ==
    [][\A t \in HostTasks :
          (cbpc[t] = "invoking" /\ cbcalls'[t] = cbcalls[t] + 1)
             => /\ cbpc'[t] = "running"
                /\ \A u \in HostTasks \ {t} : cbpc'[u] = cbpc[u]]_vars

(***************************************************************************)
(* The bytes of a download stream (SpecPull).                              *)
(***************************************************************************)
\* C40: when the worker has closed the download, every byte that streamPull
\* read from the remote file has been enqueued on it
C40_BytesDeliveredEqualBytesRead == bpc = "closed" => bdeliv = bread

\* a chunk that streamPull returns with done = false is enqueued whole
ChunkWithoutDoneIsEnqueued ==
    [][(bpc = "answered" /\ ~bmsg.done /\ bmsg.data > 0)
          => bdeliv' = bdeliv + bmsg.data]_vars
====
